---------------------------- MODULE Spec2Model ----------------------------
(***************************************************************************)
(* State-machine model of the fieldline_lsl repository.                    *)
(*                                                                         *)
(* Several parts of the repository are modelled, each with its own         *)
(* specification over the same variables:                                  *)
(*   Spec       - the sensor initialization sequencer                      *)
(*                (fieldline_lsl_new.py: FieldLineLSLConnector and         *)
(*                init_sensors),                                           *)
(*   SpecLoop   - the initialization loop of the script variants           *)
(*                lsl/lslmain.py and start_lsl_stream.py,                  *)
(*   SpecRelay  - the streaming relay of FieldLineLSL.py,                  *)
(*   SpecSample - the relay under frames of any key order,                 *)
(*   SpecLayout - the channel layout of FieldLineLSL.py,                   *)
(*   SpecRun    - one run of flconnect.py or fieldline_lsl_new.py, with    *)
(*                chassis discovery, signal handler and outlet,            *)
(*   SpecStream - the streaming loop of these scripts and its end,         *)
(*   SpecLogging - the logging configuration of the scripts,               *)
(*   SpecInitSensors - init_sensors of FieldLineLSL.py, statement by       *)
(*                statement, with the done event and init_adcs,            *)
(*   SpecExclude - the sequencer run with a list of excluded sensors,      *)
(*   SpecFlconnect - the initialization loop of flconnect.py and main.py,  *)
(*   SpecThreads - start_streaming, stop_streaming and close of            *)
(*                FieldLineLSL.py in any order, with every thread started  *)
(*                and the data callback statement by statement,            *)
(*   SpecArrival - fieldline_lsl_new.py around clear_queue, with the       *)
(*                arrival timestamp of each frame.                         *)
(* The variables of the parts a specification does not run keep their      *)
(* initial values.                                                         *)
(***************************************************************************)
EXTENDS Integers, Sequences, FiniteSets, TLC

(***************************************************************************)
(* Bounds of the model and the hardware it is run against.                 *)
(***************************************************************************)
\* number of chassis the hardware service connects to (ids 0 .. NumChassis-1)
NumChassis == 2

Chassis == 0 .. (NumChassis - 1)

\* seconds of wall-clock time the initialization is followed for
MaxTime == 2

\* frames the hardware delivers to the relay
MaxFrames == 2

\* seconds of the local clock the relay is followed for
MaxClock == 2

\* calls of start_streaming
MaxStarts == 2

\* sensor ids every chassis reports (two sensors per chassis)
SensorIds == {1, 2}

\* a sensor is the pair (chassis_id, sensor_id)
Sensors == Chassis \X SensorIds

\* Python's None for a list-of-sensors value
NoneVal == {<<-1, -1>>}

\* Python's None for the timeout and for the exit code of a running process
NoTimeout == -1

NoExit == -1

\* first_lsl_timestamp = None, first_chassis_timestamp = None
NoneTs == -1

\* self.channel_count = None
NoCount == -1

\* self._channel_names = None, self.stream_info = None
NoneList == <<"None">>

\* self._calibration_dict = None
NoneDict == [n \in {"None"} |-> "None"]

\* channels of the data source (ChannelInfo: name, data_type, calibration):
\* a closed-loop and an open-loop magnetometer channel, an ADC channel and
\* a channel whose data type is none of FieldLineDataType
ClosedLoopChannel ==
    [name |-> "00:01:50", data_type |-> "50", calibration |-> 2]

OpenLoopChannel ==
    [name |-> "00:02:28", data_type |-> "28", calibration |-> 3]

AdcChannel ==
    [name |-> "00:00:0", data_type |-> "0", calibration |-> 5]

UnknownChannel ==
    [name |-> "00:03:99", data_type |-> "99", calibration |-> 7]

\* get_channels() of a data source with two magnetometer channels
OpmChannels == <<ClosedLoopChannel, OpenLoopChannel>>

\* the channel lists get_channels() may return
ChannelLists ==
    {OpmChannels,
     <<ClosedLoopChannel, OpenLoopChannel, AdcChannel>>,
     <<ClosedLoopChannel, UnknownChannel>>}

\* ticks of the chassis clock per unit of the publish timestamp
TickRate == 25000

\* the empty defaultdict(set): no chassis has a sensor
EmptySets == [c \in Chassis |-> {}]

\* the sensors of a chassis->ids mapping, as pairs
PairsOf(d) == {p \in Sensors : p[2] \in d[p[1]]}

VARIABLES
    \* ---- configuration of init_sensors (fieldline_lsl_new.py)
    expected_sensors,      \* NoneVal or the allow-list, a set of sensors
    disable_restart,       \* --disable-restart
    skip_init,             \* --skip-init
    excluded_sensors,      \* the list excluded_sensors, a set of sensors
    \* ---- FieldLineLSLConnector fields
    sensors_available,
    sensors_selected,
    sensors_restarted,
    sensors_coarse_zeroed,
    sensors_fine_zeroed,
    \* ---- the polling loop of init_sensors
    service_running,       \* fService.is_service_running()
    pc,                    \* position of the main thread
    batch,                 \* the popped dict held by the local variable
    exit_reason,           \* why the loop was left
    \* ---- hardware service (environment)
    hw_avail,              \* chassis that have not reported their sensors yet
    restart_inflight,      \* restarts issued, completion not yet reported
    coarse_inflight,
    fine_inflight,
    \* ---- history of what was issued and reported
    n_restart,             \* per sensor, number of restart operations issued
    n_coarse,
    n_fine,
    turned_off,            \* sensors told to turn off
    seen,                  \* sensors the loop has taken from sensors_available
    ever_restarted,        \* sensors marked restarted (callback or synthetic)
    ever_coarse_done,      \* sensors whose coarse-zero-complete was received
    ever_fine_done,
    \* ---- the initialization loop of lsl/lslmain.py and start_lsl_stream.py
    script,                \* which script runs: "lslmain" or "start_lsl_stream"
    init_timeout,          \* args.init_timeout in seconds, NoTimeout when absent
    now,                   \* seconds since init_starttime
    exit_code,             \* the code of sys.exit, NoExit while the process runs
    data_started,          \* fService.start_data() was called
    \* ---- FieldLineLSL (FieldLineLSL.py): the relay of frames to the outlet
    running,               \* self.running
    stream_outlet,         \* "None" or "open"
    data_callback,         \* read_data has registered callback_data_available
    data_queue,            \* self.data_queue, a sequence of frames
    streaming_thread,      \* state of the thread running thread_stream_data
    first_lsl_timestamp,   \* local clock of the anchor, NoneTs when unset
    first_chassis_timestamp, \* hardware tick of the anchor, NoneTs when unset
    main_pc,               \* position of the thread that calls start / stop / close
    local_clock,           \* pylsl.local_clock(), in seconds
    hw_tick,               \* tick of the last frame the hardware produced
    pushed,                \* history: the samples pushed to the outlet
    delivered,             \* history: the frames given to callback_data_available
    n_started,             \* history: number of calls of start_streaming
    \* ---- FieldLineLSL: the channel layout
    unit_T,                \* self.unit_T, the name of the unit of the OPM data
    hw_channels,           \* get_channels(): the channels of the data source
    adc_on,                \* chassis whose ADCs are started
    channel_names,         \* self._channel_names, NoneList when unset
    calibration_dict,      \* self._calibration_dict, NoneDict when unset
    channel_count,         \* self.channel_count, NoCount when unset
    stream_info,           \* channel descriptions of self.stream_info
    timed_out,             \* history: a dequeue of the relay has timed out
    \* ---- one run of flconnect.py or of fieldline_lsl_new.py, as a whole
    run_pc,                \* position of the script's main flow
    discovered_chassis,    \* fService.get_chassis_list()
    expected_chassis,      \* args.chassis, NoneChassis when absent
    adc,                   \* args.adc
    chassis_list,          \* the argument of fService.connect, NoneChassis
                           \* while connect has not been called
    signalled,             \* the signal handler has run
    ops,                   \* history: hardware and stream operations issued
    ops_after_signal,      \* history: those issued after the handler ran
    data_q,                \* fConnector.data_q, a sequence of frames
    structure_sample,      \* the frame the outlet is built from
    outlets,               \* history: the stream outlets constructed
    duration,              \* args.duration in seconds, NoDuration when absent
    runtime,               \* seconds since the start of the streaming loop
    stop_log,              \* history: the stop operations after the loop
    chunks,                \* history: the frame last taken with the chunk
                           \* pushed for it, empty before the first push
    \* ---- the logging configuration of a script, for two invocations
    verbose,               \* args.verbose of each invocation
    log_level,             \* the levels each invocation has configured
    \* ---- FieldLineLSL.init_sensors, statement by statement
    skip_restart,          \* the argument skip_restart
    skip_zeroing,          \* the argument skip_zeroing
    adcs_arg,              \* the argument adcs, a bool or a list of ids
    connected,             \* chassis ids of get_chassis_desc_dicts()
    done_event,            \* self.done, the Event: set or clear
    init_pc,               \* position of the thread that runs init_sensors
    issued,                \* history: the operations issued, in order
    awaiting,              \* operations whose on_completed has not fired
    adc_started,           \* start_adc_on_chassis, the list init_adcs returns
    adc_stopped,           \* chassis init_adcs has called stop_adc on
    \* ---- FieldLineLSL, every thread start_streaming has started
    workers,               \* the threads started, in order: position in
                           \* thread_stream_data and the frame in hand;
                           \* self.streaming_thread is the last of them
    cb_data,               \* the frame callback_data_available is handling
    warned,                \* history: stop_streaming logged its warning
    \* ---- fieldline_lsl_new.py, the frames with their arrival stamps
    cb_sample,             \* the sample the connector's callback is handling
    q_stamps,              \* per frame of data_q: timestamp_lsl and history
    arrived_at,            \* history: local clock at each callback, by frame
    cleared,               \* history: clear_queue() has run
    published              \* history: the last push_flchunk

cfgvars == <<expected_sensors, disable_restart, skip_init, excluded_sensors>>
connvars == <<sensors_available, sensors_selected, sensors_restarted,
              sensors_coarse_zeroed, sensors_fine_zeroed>>
loopvars == <<service_running, pc, batch, exit_reason>>
hwvars == <<hw_avail, restart_inflight, coarse_inflight, fine_inflight>>
histvars == <<n_restart, n_coarse, n_fine, turned_off, seen, ever_restarted,
              ever_coarse_done, ever_fine_done>>

seqvars == <<cfgvars, connvars, loopvars, hwvars, histvars>>

scriptvars == <<script, init_timeout, now, exit_code, data_started>>

layoutvars == <<unit_T, hw_channels, adc_on, channel_names, calibration_dict,
                channel_count, stream_info, timed_out>>

relayvars == <<running, stream_outlet, data_callback, data_queue,
               streaming_thread, first_lsl_timestamp, first_chassis_timestamp,
               main_pc, local_clock, hw_tick, pushed, delivered, n_started,
               layoutvars>>

flowvars == <<run_pc, discovered_chassis, expected_chassis, adc, chassis_list,
              signalled, ops, ops_after_signal, data_q, structure_sample,
              outlets, duration, runtime, stop_log, chunks>>

logvars == <<verbose, log_level>>

initvars == <<skip_restart, skip_zeroing, adcs_arg, connected, done_event,
              init_pc, issued, awaiting, adc_started, adc_stopped>>

workervars == <<workers, cb_data, warned>>

stampvars == <<cb_sample, q_stamps, arrived_at, cleared, published>>

runvars == <<flowvars, logvars, initvars, workervars, stampvars>>

vars == <<seqvars, scriptvars, runvars, relayvars, runvars>>

\* args.chassis is None
NoneChassis == {-1}

\* no frame has been read from the queue
NoSample == <<"None">>

\* args.duration is None
NoDuration == -1

\* the two invocations whose logging configurations are compared
Invocations == {1, 2}

\* no logging level is configured yet
LevelUnset == [status |-> "unset", root |-> "NOTSET", logger |-> "NOTSET"]

\* the command line is not parsed, logging is not configured
LoggingNotConfigured ==
    /\ verbose = [r \in Invocations |-> 0]
    /\ log_level = [r \in Invocations |-> LevelUnset]

\* a bool as the adcs argument of init_sensors
AdcsBool(b) == [is_list |-> FALSE, bool |-> b, list |-> <<>>]

\* FieldLineLSL.init_sensors has not been called
InitSensorsNotCalled ==
    /\ skip_restart = FALSE
    /\ skip_zeroing = FALSE
    /\ adcs_arg = AdcsBool(FALSE)
    /\ connected = {}
    /\ done_event = FALSE
    /\ init_pc = "none"
    /\ issued = <<>>
    /\ awaiting = {}
    /\ adc_started = <<>>
    /\ adc_stopped = {}

\* no step of a script's main flow has been taken
FlowNotStarted ==
    /\ run_pc = "none"
    /\ discovered_chassis = {}
    /\ expected_chassis = NoneChassis
    /\ adc = FALSE
    /\ chassis_list = NoneChassis
    /\ signalled = FALSE
    /\ ops = {}
    /\ ops_after_signal = {}
    /\ data_q = <<>>
    /\ structure_sample = NoSample
    /\ outlets = <<>>
    /\ duration = NoDuration
    /\ runtime = 0
    /\ stop_log = <<>>
    /\ chunks = <<>>

\* the script's main flow has not begun
\* no thread started, no callback under way, nothing stamped
WorkersNotStarted ==
    /\ workers = <<>>
    /\ cb_data = <<>>
    /\ warned = FALSE
    /\ cb_sample = <<>>
    /\ q_stamps = <<>>
    /\ arrived_at = <<>>
    /\ cleared = FALSE
    /\ published = <<>>

RunNotStarted ==
    /\ LoggingNotConfigured
    /\ InitSensorsNotCalled
    /\ FlowNotStarted
    /\ WorkersNotStarted

\* FieldLineLSL.__init__: nothing streams, the anchor pair is unset
StreamingConstructed ==
    /\ running = FALSE
    /\ stream_outlet = "None"
    /\ data_callback = FALSE
    /\ data_queue = <<>>
    /\ streaming_thread = "None"
    /\ first_lsl_timestamp = NoneTs
    /\ first_chassis_timestamp = NoneTs
    /\ main_pc = "idle"
    /\ local_clock = 0
    /\ hw_tick = 0
    /\ pushed = <<>>
    /\ delivered = <<>>
    /\ n_started = 0

\* FieldLineLSL.__init__: and no layout, no stream info
RelayConstructed ==
    /\ StreamingConstructed
    /\ channel_names = NoneList
    /\ calibration_dict = NoneDict
    /\ channel_count = NoCount
    /\ stream_info = NoneList
    /\ timed_out = FALSE

(***************************************************************************)
(* FieldLineLSLConnector (fieldline_lsl_new.py)                            *)
(***************************************************************************)
\* has_sensors_*: any chassis with a non-empty set
HasSensors(d) == \E c \in Chassis : d[c] # {}

\* a sequencer gating on any chassis being complete instead of all of them
AllStageComplete_Any(done, selected) ==
    \E c \in Chassis : selected[c] # {} /\ done[c] = selected[c]

\* all(done[chassis_id] == selected[chassis_id] for chassis_id in selected.keys())
\* a chassis is a key of sensors_selected exactly when a sensor of it was selected
AllStageComplete(done, selected) ==
    \A c \in Chassis : selected[c] # {} => done[c] = selected[c]

\* (chassis_id, sensor_id not in excluded_sensors): a two-element tuple, which
\* Python takes as true whatever excluded_sensors holds
NotExcludedTest(c, s) == TRUE

\* a selection that does not consult the allow-list
IsSelected_NoAllowList(c, s) == NotExcludedTest(c, s)

\* the condition under which init_sensors selects an available sensor
IsSelected(c, s) ==
    /\ (expected_sensors = NoneVal \/ <<c, s>> \in expected_sensors)
    /\ NotExcludedTest(c, s)

\* callback_sensors_available(chassis_id, sensor_list)
callback_sensors_available(c) ==
    /\ c \in hw_avail
    /\ hw_avail' = hw_avail \ {c}
    /\ sensors_available' =
           [sensors_available EXCEPT ![c] = sensors_available[c] \cup SensorIds]
    /\ UNCHANGED <<cfgvars, sensors_selected, sensors_restarted,
                   sensors_coarse_zeroed, sensors_fine_zeroed, loopvars,
                   restart_inflight, coarse_inflight, fine_inflight, histvars>>
    /\ UNCHANGED <<scriptvars, relayvars, runvars>>

\* a restart-complete handler that marks the sensor coarse-zeroed
callback_restart_complete_AsCoarse(c, s) ==
    /\ <<c, s>> \in restart_inflight
    /\ restart_inflight' = restart_inflight \ {<<c, s>>}
    /\ sensors_coarse_zeroed' =
           [sensors_coarse_zeroed EXCEPT ![c] = sensors_coarse_zeroed[c] \cup {s}]
    /\ UNCHANGED <<cfgvars, sensors_available, sensors_selected,
                   sensors_restarted, sensors_fine_zeroed, loopvars,
                   hw_avail, coarse_inflight, fine_inflight, histvars>>
    /\ UNCHANGED <<scriptvars, relayvars, runvars>>

\* callback_restart_complete -> set_sensor_restarted
callback_restart_complete(c, s) ==
    /\ <<c, s>> \in restart_inflight
    /\ restart_inflight' = restart_inflight \ {<<c, s>>}
    /\ sensors_restarted' =
           [sensors_restarted EXCEPT ![c] = sensors_restarted[c] \cup {s}]
    /\ ever_restarted' = ever_restarted \cup {<<c, s>>}
    /\ UNCHANGED <<cfgvars, sensors_available, sensors_selected,
                   sensors_coarse_zeroed, sensors_fine_zeroed, loopvars,
                   hw_avail, coarse_inflight, fine_inflight,
                   n_restart, n_coarse, n_fine, turned_off, seen,
                   ever_coarse_done, ever_fine_done>>
    /\ UNCHANGED <<scriptvars, relayvars, runvars>>

\* callback_coarse_zero_complete -> set_sensor_coarse_zeroed
callback_coarse_zero_complete(c, s) ==
    /\ <<c, s>> \in coarse_inflight
    /\ coarse_inflight' = coarse_inflight \ {<<c, s>>}
    /\ sensors_coarse_zeroed' =
           [sensors_coarse_zeroed EXCEPT ![c] = sensors_coarse_zeroed[c] \cup {s}]
    /\ ever_coarse_done' = ever_coarse_done \cup {<<c, s>>}
    /\ UNCHANGED <<cfgvars, sensors_available, sensors_selected,
                   sensors_restarted, sensors_fine_zeroed, loopvars,
                   hw_avail, restart_inflight, fine_inflight,
                   n_restart, n_coarse, n_fine, turned_off, seen,
                   ever_restarted, ever_fine_done>>
    /\ UNCHANGED <<scriptvars, relayvars, runvars>>

\* callback_fine_zero_complete -> set_sensor_fine_zeroed
callback_fine_zero_complete(c, s) ==
    /\ <<c, s>> \in fine_inflight
    /\ fine_inflight' = fine_inflight \ {<<c, s>>}
    /\ sensors_fine_zeroed' =
           [sensors_fine_zeroed EXCEPT ![c] = sensors_fine_zeroed[c] \cup {s}]
    /\ ever_fine_done' = ever_fine_done \cup {<<c, s>>}
    /\ UNCHANGED <<cfgvars, sensors_available, sensors_selected,
                   sensors_restarted, sensors_coarse_zeroed, loopvars,
                   hw_avail, restart_inflight, coarse_inflight,
                   n_restart, n_coarse, n_fine, turned_off, seen,
                   ever_restarted, ever_coarse_done>>
    /\ UNCHANGED <<scriptvars, relayvars, runvars>>

(***************************************************************************)
(* init_sensors (fieldline_lsl_new.py), the polling loop                   *)
(***************************************************************************)
\* one more operation issued for every sensor of the set
Issue(n, S) == [p \in Sensors |-> IF p \in S THEN n[p] + 1 ELSE n[p]]

\* while fService.is_service_running(): if skip_init: break
LoopHead ==
    /\ pc = "head"
    /\ IF ~service_running
          THEN pc' = "returned" /\ exit_reason' = "service_stopped"
          ELSE IF skip_init
                  THEN pc' = "returned" /\ exit_reason' = "skip_init"
                  ELSE pc' = "avail" /\ UNCHANGED exit_reason
    /\ UNCHANGED <<cfgvars, connvars, service_running, batch, hwvars, histvars>>
    /\ UNCHANGED <<scriptvars, relayvars, runvars>>

\* if fConnector.has_sensors_available(): pop them, then select and restart
\* (or mark restarted) the expected ones and turn the others off
AvailBranch ==
    /\ pc = "avail"
    /\ pc' = "chk_restarted"
    /\ IF HasSensors(sensors_available)
          THEN LET popped == sensors_available
                   sel == [c \in Chassis |-> {s \in popped[c] : IsSelected(c, s)}]
                   off == [c \in Chassis |-> popped[c] \ sel[c]]
               IN  /\ sensors_available' = EmptySets
                   /\ seen' = seen \cup PairsOf(popped)
                   /\ sensors_selected' =
                          [c \in Chassis |-> sensors_selected[c] \cup sel[c]]
                   /\ turned_off' = turned_off \cup PairsOf(off)
                   /\ IF disable_restart
                         THEN /\ sensors_restarted' =
                                     [c \in Chassis |-> sensors_restarted[c] \cup sel[c]]
                              /\ ever_restarted' = ever_restarted \cup PairsOf(sel)
                              /\ UNCHANGED <<restart_inflight, n_restart>>
                         ELSE /\ restart_inflight' = restart_inflight \cup PairsOf(sel)
                              /\ n_restart' = Issue(n_restart, PairsOf(sel))
                              /\ UNCHANGED <<sensors_restarted, ever_restarted>>
          ELSE UNCHANGED <<sensors_available, seen, sensors_selected, turned_off,
                           sensors_restarted, ever_restarted, restart_inflight,
                           n_restart>>
    /\ UNCHANGED <<cfgvars, sensors_coarse_zeroed, sensors_fine_zeroed,
                   service_running, batch, exit_reason, hw_avail,
                   coarse_inflight, fine_inflight, n_coarse, n_fine,
                   ever_coarse_done, ever_fine_done>>
    /\ UNCHANGED <<scriptvars, relayvars, runvars>>

\* if has_sensors_restarted() and all(restarted == selected ...)
CheckRestarted ==
    /\ pc = "chk_restarted"
    /\ pc' = IF HasSensors(sensors_restarted)
                /\ AllStageComplete(sensors_restarted, sensors_selected)
             THEN "pop_restarted" ELSE "chk_coarse"
    /\ UNCHANGED <<cfgvars, connvars, service_running, batch, exit_reason,
                   hwvars, histvars>>
    /\ UNCHANGED <<scriptvars, relayvars, runvars>>

\* a pop that returns the set and leaves it in the connector
PopRestarted_NoClear ==
    /\ pc = "pop_restarted"
    /\ pc' = "issue_coarse"
    /\ batch' = sensors_restarted
    /\ UNCHANGED <<cfgvars, connvars, service_running, exit_reason, hwvars,
                   histvars>>
    /\ UNCHANGED <<scriptvars, relayvars, runvars>>

\* a pop that empties the set of the connector and returns a new, empty dict
PopRestarted_ReturnsNew ==
    /\ pc = "pop_restarted"
    /\ pc' = "issue_coarse"
    /\ batch' = EmptySets
    /\ sensors_restarted' = EmptySets
    /\ UNCHANGED <<cfgvars, sensors_available, sensors_selected,
                   sensors_coarse_zeroed, sensors_fine_zeroed, service_running,
                   exit_reason, hwvars, histvars>>
    /\ UNCHANGED <<scriptvars, relayvars, runvars>>

\* fConnector.pop_sensors_restarted(); the local sensors_restarted keeps the
\* popped dict
PopRestarted ==
    /\ pc = "pop_restarted"
    /\ pc' = "issue_coarse"
    /\ batch' = sensors_restarted
    /\ sensors_restarted' = EmptySets
    /\ UNCHANGED <<cfgvars, sensors_available, sensors_selected,
                   sensors_coarse_zeroed, sensors_fine_zeroed, service_running,
                   exit_reason, hwvars, histvars>>
    /\ UNCHANGED <<scriptvars, relayvars, runvars>>

\* time.sleep(2); fService.coarse_zero_sensors(sensors_restarted)
IssueCoarseZero ==
    /\ pc = "issue_coarse"
    /\ pc' = "chk_coarse"
    /\ coarse_inflight' = coarse_inflight \cup PairsOf(batch)
    /\ n_coarse' = Issue(n_coarse, PairsOf(batch))
    /\ UNCHANGED <<cfgvars, connvars, service_running, batch, exit_reason,
                   hw_avail, restart_inflight, fine_inflight, n_restart, n_fine,
                   turned_off, seen, ever_restarted, ever_coarse_done,
                   ever_fine_done>>
    /\ UNCHANGED <<scriptvars, relayvars, runvars>>

\* if has_sensors_coarse_zeroed() and all(coarse_zeroed == selected ...)
CheckCoarseZeroed ==
    /\ pc = "chk_coarse"
    /\ pc' = IF HasSensors(sensors_coarse_zeroed)
                /\ AllStageComplete(sensors_coarse_zeroed, sensors_selected)
             THEN "pop_coarse" ELSE "chk_fine"
    /\ UNCHANGED <<cfgvars, connvars, service_running, batch, exit_reason,
                   hwvars, histvars>>
    /\ UNCHANGED <<scriptvars, relayvars, runvars>>

\* fConnector.pop_sensors_coarse_zeroed()
PopCoarseZeroed ==
    /\ pc = "pop_coarse"
    /\ pc' = "issue_fine"
    /\ batch' = sensors_coarse_zeroed
    /\ sensors_coarse_zeroed' = EmptySets
    /\ UNCHANGED <<cfgvars, sensors_available, sensors_selected,
                   sensors_restarted, sensors_fine_zeroed, service_running,
                   exit_reason, hwvars, histvars>>
    /\ UNCHANGED <<scriptvars, relayvars, runvars>>

\* fService.fine_zero_sensors(sensors_coarse_zeroed)
IssueFineZero ==
    /\ pc = "issue_fine"
    /\ pc' = "chk_fine"
    /\ fine_inflight' = fine_inflight \cup PairsOf(batch)
    /\ n_fine' = Issue(n_fine, PairsOf(batch))
    /\ UNCHANGED <<cfgvars, connvars, service_running, batch, exit_reason,
                   hw_avail, restart_inflight, coarse_inflight, n_restart,
                   n_coarse, turned_off, seen, ever_restarted, ever_coarse_done,
                   ever_fine_done>>
    /\ UNCHANGED <<scriptvars, relayvars, runvars>>

\* if has_sensors_fine_zeroed() and all(fine_zeroed == selected ...): break
CheckFineZeroed ==
    /\ pc = "chk_fine"
    /\ IF HasSensors(sensors_fine_zeroed)
          /\ AllStageComplete(sensors_fine_zeroed, sensors_selected)
          THEN pc' = "returned" /\ exit_reason' = "fine_zeroed"
          ELSE pc' = "head" /\ UNCHANGED exit_reason
    /\ UNCHANGED <<cfgvars, connvars, service_running, batch, hwvars, histvars>>
    /\ UNCHANGED <<scriptvars, relayvars, runvars>>

\* the hardware service stops running while the loop polls
ServiceStops ==
    /\ service_running
    /\ pc # "returned"
    /\ service_running' = FALSE
    /\ UNCHANGED <<cfgvars, connvars, pc, batch, exit_reason, hwvars, histvars>>
    /\ UNCHANGED <<scriptvars, relayvars, runvars>>

(***************************************************************************)
(* Specification of the sequencer                                          *)
(***************************************************************************)
\* the allow-lists the sequencer is run with
ExpectedChoices == {NoneVal} \cup (SUBSET Sensors)

Init ==
    /\ expected_sensors \in ExpectedChoices
    /\ disable_restart \in BOOLEAN
    /\ skip_init \in BOOLEAN
    /\ excluded_sensors = {}
    /\ sensors_available = EmptySets
    /\ sensors_selected = EmptySets
    /\ sensors_restarted = EmptySets
    /\ sensors_coarse_zeroed = EmptySets
    /\ sensors_fine_zeroed = EmptySets
    /\ service_running = TRUE
    /\ pc = "head"
    /\ batch = EmptySets
    /\ exit_reason = "none"
    /\ hw_avail = Chassis
    /\ restart_inflight = {}
    /\ coarse_inflight = {}
    /\ fine_inflight = {}
    /\ n_restart = [p \in Sensors |-> 0]
    /\ n_coarse = [p \in Sensors |-> 0]
    /\ n_fine = [p \in Sensors |-> 0]
    /\ turned_off = {}
    /\ seen = {}
    /\ ever_restarted = {}
    /\ ever_coarse_done = {}
    /\ ever_fine_done = {}
    /\ script = "fieldline_lsl_new"
    /\ init_timeout = NoTimeout
    /\ now = 0
    /\ exit_code = NoExit
    /\ data_started = FALSE
    /\ RelayConstructed
    /\ unit_T = "fT"
    /\ hw_channels = OpmChannels
    /\ adc_on = {}
    /\ RunNotStarted

MainStep ==
    \/ LoopHead
    \/ AvailBranch
    \/ CheckRestarted
    \/ PopRestarted
    \/ IssueCoarseZero
    \/ CheckCoarseZeroed
    \/ PopCoarseZeroed
    \/ IssueFineZero
    \/ CheckFineZeroed

Callback ==
    \/ \E c \in Chassis : callback_sensors_available(c)
    \/ \E p \in Sensors : callback_restart_complete(p[1], p[2])
    \/ \E p \in Sensors : callback_coarse_zero_complete(p[1], p[2])
    \/ \E p \in Sensors : callback_fine_zero_complete(p[1], p[2])

Next ==
    \/ MainStep
    \/ Callback
    \/ ServiceStops

Spec == Init /\ [][Next]_vars


(***************************************************************************)
(* The connector of lsl/lslmain.py and start_lsl_stream.py                 *)
(* (fieldline_connector_lsl / fieldline_lsl_connector).  The module is not *)
(* among the sources; it is modelled from the specification's description  *)
(* of the sequencer: per-chassis sets filled by the hardware callbacks and *)
(* drained by the polling loop.  Its sets are held in the connector        *)
(* variables: ready in sensors_available, valid in sensors_selected.       *)
(***************************************************************************)
has_sensors_ready == HasSensors(sensors_available)

num_valid_sensors == Cardinality(PairsOf(sensors_selected))

has_restarted_sensors == HasSensors(sensors_restarted)

get_num_restarted_sensors == Cardinality(PairsOf(sensors_restarted))

has_coarse_zero_sensors == HasSensors(sensors_coarse_zeroed)

get_num_coarse_zero_sensors == Cardinality(PairsOf(sensors_coarse_zeroed))

has_fine_zero_sensors == HasSensors(sensors_fine_zeroed)

get_num_fine_zero_sensors == Cardinality(PairsOf(sensors_fine_zeroed))

\* the hardware reports the sensors of a chassis as ready
connector_sensors_ready(c) == callback_sensors_available(c)

connector_restart_complete(c, s) == callback_restart_complete(c, s)

connector_coarse_zero_complete(c, s) == callback_coarse_zero_complete(c, s)

connector_fine_zero_complete(c, s) == callback_fine_zero_complete(c, s)

(***************************************************************************)
(* The initialization loop of lsl/lslmain.py and start_lsl_stream.py       *)
(***************************************************************************)
\* the number of entries of the expected-sensor list
LenExpected == Cardinality(expected_sensors)

\* the test under which a ready sensor is set valid
IsValidSensor(c, s) ==
    /\ (expected_sensors = NoneVal \/ <<c, s>> \in expected_sensors)
    /\ (script = "start_lsl_stream" => <<c, s>> \notin excluded_sensors)

\* the conditions of the if / elif chain, in order
CondReady == has_sensors_ready

CondRestarted ==
    has_restarted_sensors /\ num_valid_sensors = get_num_restarted_sensors

CondCoarseZeroed ==
    has_coarse_zero_sensors /\ num_valid_sensors = get_num_coarse_zero_sensors

CondFineZeroed ==
    has_fine_zero_sensors /\ num_valid_sensors = get_num_fine_zero_sensors

\* a comparison the wrong way round
CondFewerValid_Greater ==
    expected_sensors # NoneVal /\ num_valid_sensors > LenExpected

CondFewerValid ==
    expected_sensors # NoneVal /\ num_valid_sensors < LenExpected

\* no branch before the fewer-valid-sensors test is taken
NoStageBranch ==
    ~CondReady /\ ~CondRestarted /\ ~CondCoarseZeroed /\ ~CondFineZeroed

\* the timeout in force: lslmain.py has none when the option is absent,
\* start_lsl_stream.py then takes one hour
HourSeconds == 3600

EffectiveTimeout ==
    IF script = "start_lsl_stream" /\ init_timeout = NoTimeout
       THEN HourSeconds ELSE init_timeout

\* lslmain.py:        if init_timeout and (now - init_starttime) > init_timeout
\* start_lsl_stream:  if (now - init_starttime) > init_timeout
\* (a timedelta of zero seconds is false)
TimeoutExpired ==
    IF script = "lslmain"
       THEN init_timeout # NoTimeout /\ init_timeout # 0 /\ now > init_timeout
       ELSE now > EffectiveTimeout

\* fService.stop(); sys.exit(1)
StopAndExit(reason) ==
    /\ service_running' = FALSE
    /\ exit_code' = 1
    /\ exit_reason' = reason
    /\ pc' = "exited"

\* while fService.is_service_running():
ScriptLoopHead ==
    /\ pc = "loop_head"
    /\ IF service_running
          THEN pc' = "loop_branch" /\ UNCHANGED exit_reason
          ELSE pc' = "init_complete" /\ exit_reason' = "service_stopped"
    /\ UNCHANGED <<cfgvars, connvars, service_running, batch, hwvars, histvars,
                   scriptvars>>
    /\ UNCHANGED <<relayvars, runvars>>

\* if fConnector.has_sensors_ready(): set the expected ones valid and restart
\* them, turn the others off
ScriptReady ==
    /\ pc = "loop_branch"
    /\ CondReady
    /\ pc' = "loop_tail"
    /\ LET ready == sensors_available
           valid == [c \in Chassis |-> {s \in ready[c] : IsValidSensor(c, s)}]
           off == [c \in Chassis |-> ready[c] \ valid[c]]
       IN  /\ sensors_available' = EmptySets
           /\ seen' = seen \cup PairsOf(ready)
           /\ sensors_selected' =
                  [c \in Chassis |-> sensors_selected[c] \cup valid[c]]
           /\ turned_off' = turned_off \cup PairsOf(off)
           /\ IF script = "start_lsl_stream" /\ disable_restart
                 THEN \* fConnector.callback_restart_complete(chassis_id, sensor_id)
                      /\ sensors_restarted' =
                             [c \in Chassis |-> sensors_restarted[c] \cup valid[c]]
                      /\ ever_restarted' = ever_restarted \cup PairsOf(valid)
                      /\ UNCHANGED <<restart_inflight, n_restart>>
                 ELSE /\ restart_inflight' = restart_inflight \cup PairsOf(valid)
                      /\ n_restart' = Issue(n_restart, PairsOf(valid))
                      /\ UNCHANGED <<sensors_restarted, ever_restarted>>
    /\ UNCHANGED <<cfgvars, sensors_coarse_zeroed, sensors_fine_zeroed,
                   service_running, batch, exit_reason, hw_avail,
                   coarse_inflight, fine_inflight, n_coarse, n_fine,
                   ever_coarse_done, ever_fine_done, scriptvars>>
    /\ UNCHANGED <<relayvars, runvars>>

\* elif has_restarted_sensors() and num_valid_sensors() == get_num_restarted_sensors():
\* coarse-zero every restarted sensor
ScriptCoarseZero ==
    /\ pc = "loop_branch"
    /\ ~CondReady /\ CondRestarted
    /\ pc' = "loop_tail"
    /\ batch' = sensors_restarted
    /\ sensors_restarted' = EmptySets
    /\ coarse_inflight' = coarse_inflight \cup PairsOf(sensors_restarted)
    /\ n_coarse' = Issue(n_coarse, PairsOf(sensors_restarted))
    /\ UNCHANGED <<cfgvars, sensors_available, sensors_selected,
                   sensors_coarse_zeroed, sensors_fine_zeroed, service_running,
                   exit_reason, hw_avail, restart_inflight, fine_inflight,
                   n_restart, n_fine, turned_off, seen, ever_restarted,
                   ever_coarse_done, ever_fine_done, scriptvars>>
    /\ UNCHANGED <<relayvars, runvars>>

\* elif has_coarse_zero_sensors() and num_valid_sensors() == get_num_coarse_zero_sensors():
\* fine-zero every coarse-zeroed sensor
ScriptFineZero ==
    /\ pc = "loop_branch"
    /\ ~CondReady /\ ~CondRestarted /\ CondCoarseZeroed
    /\ pc' = "loop_tail"
    /\ batch' = sensors_coarse_zeroed
    /\ sensors_coarse_zeroed' = EmptySets
    /\ fine_inflight' = fine_inflight \cup PairsOf(sensors_coarse_zeroed)
    /\ n_fine' = Issue(n_fine, PairsOf(sensors_coarse_zeroed))
    /\ UNCHANGED <<cfgvars, sensors_available, sensors_selected,
                   sensors_restarted, sensors_fine_zeroed, service_running,
                   exit_reason, hw_avail, restart_inflight, coarse_inflight,
                   n_restart, n_coarse, turned_off, seen, ever_restarted,
                   ever_coarse_done, ever_fine_done, scriptvars>>
    /\ UNCHANGED <<relayvars, runvars>>

\* elif has_fine_zero_sensors() and num_valid_sensors() == get_num_fine_zero_sensors():
\* break when every expected sensor is among the fine-zeroed ones
ScriptFineDone ==
    /\ pc = "loop_branch"
    /\ ~CondReady /\ ~CondRestarted /\ ~CondCoarseZeroed /\ CondFineZeroed
    /\ batch' = sensors_fine_zeroed
    /\ sensors_fine_zeroed' = EmptySets
    /\ IF expected_sensors = NoneVal
          \/ expected_sensors \subseteq PairsOf(sensors_fine_zeroed)
          THEN pc' = "init_complete" /\ exit_reason' = "fine_zeroed"
          ELSE pc' = "loop_tail" /\ UNCHANGED exit_reason
    /\ UNCHANGED <<cfgvars, sensors_available, sensors_selected,
                   sensors_restarted, sensors_coarse_zeroed, service_running,
                   hwvars, histvars, scriptvars>>
    /\ UNCHANGED <<relayvars, runvars>>

\* elif expected_sensors is not None and num_valid_sensors() < len(expected_sensors):
\* fService.stop(); sys.exit(1)
ScriptFewerValid ==
    /\ pc = "loop_branch"
    /\ NoStageBranch /\ CondFewerValid
    /\ StopAndExit("fewer_valid")
    /\ UNCHANGED <<cfgvars, connvars, batch, hwvars, histvars,
                   script, init_timeout, now, data_started>>
    /\ UNCHANGED <<relayvars, runvars>>

\* none of the conditions of the chain holds
ScriptNoBranch ==
    /\ pc = "loop_branch"
    /\ NoStageBranch /\ ~CondFewerValid
    /\ pc' = "loop_tail"
    /\ UNCHANGED <<cfgvars, connvars, service_running, batch, exit_reason,
                   hwvars, histvars, scriptvars>>
    /\ UNCHANGED <<relayvars, runvars>>

\* if expected_sensors is not None and len(expected_sensors) == 0: break
\* if <timeout expired>: fService.stop(); sys.exit(1)
ScriptLoopTail ==
    /\ pc = "loop_tail"
    /\ IF expected_sensors # NoneVal /\ LenExpected = 0
          THEN /\ pc' = "init_complete"
               /\ exit_reason' = "none_expected"
               /\ UNCHANGED <<service_running, exit_code>>
          ELSE IF TimeoutExpired
                  THEN StopAndExit("timeout")
                  ELSE /\ pc' = "loop_head"
                       /\ UNCHANGED <<service_running, exit_reason, exit_code>>
    /\ UNCHANGED <<cfgvars, connvars, batch, hwvars, histvars,
                   script, init_timeout, now, data_started>>
    /\ UNCHANGED <<relayvars, runvars>>

\* logger.info("Initialization of sensors complete"); fService.start_data()
ScriptStartData ==
    /\ pc = "init_complete"
    /\ pc' = "streaming"
    /\ data_started' = TRUE
    /\ UNCHANGED <<cfgvars, connvars, service_running, batch, exit_reason,
                   hwvars, histvars, script, init_timeout, now, exit_code>>
    /\ UNCHANGED <<relayvars, runvars>>

\* a second of wall-clock time passes during initialization
Tick ==
    /\ pc \in {"loop_head", "loop_branch", "loop_tail"}
    /\ now < MaxTime
    /\ now' = now + 1
    /\ UNCHANGED <<seqvars, script, init_timeout, exit_code, data_started>>
    /\ UNCHANGED <<relayvars, runvars>>

(***************************************************************************)
(* Specification of the script loop                                        *)
(***************************************************************************)
\* the allow-lists the scripts are run with: none, an empty list, one
\* sensor, all sensors but one, all sensors
LoopExpectedChoices ==
    {NoneVal, {}, {<<0, 1>>}, Sensors \ {<<0, 1>>}, Sensors}

\* the values of --init_timeout
TimeoutChoices == {NoTimeout, 0, 1}

InitLoop ==
    /\ script \in {"lslmain", "start_lsl_stream"}
    /\ expected_sensors \in LoopExpectedChoices
    /\ disable_restart \in (IF script = "lslmain" THEN {FALSE} ELSE BOOLEAN)
    /\ skip_init = FALSE
    /\ excluded_sensors = {}
    /\ init_timeout \in TimeoutChoices
    /\ sensors_available = EmptySets
    /\ sensors_selected = EmptySets
    /\ sensors_restarted = EmptySets
    /\ sensors_coarse_zeroed = EmptySets
    /\ sensors_fine_zeroed = EmptySets
    /\ service_running = TRUE
    /\ pc = "loop_head"
    /\ batch = EmptySets
    /\ exit_reason = "none"
    /\ hw_avail = Chassis
    /\ restart_inflight = {}
    /\ coarse_inflight = {}
    /\ fine_inflight = {}
    /\ n_restart = [p \in Sensors |-> 0]
    /\ n_coarse = [p \in Sensors |-> 0]
    /\ n_fine = [p \in Sensors |-> 0]
    /\ turned_off = {}
    /\ seen = {}
    /\ ever_restarted = {}
    /\ ever_coarse_done = {}
    /\ ever_fine_done = {}
    /\ now = 0
    /\ exit_code = NoExit
    /\ data_started = FALSE
    /\ RelayConstructed
    /\ unit_T = "fT"
    /\ hw_channels = OpmChannels
    /\ adc_on = {}
    /\ RunNotStarted

ScriptStep ==
    \/ ScriptLoopHead
    \/ ScriptReady
    \/ ScriptCoarseZero
    \/ ScriptFineZero
    \/ ScriptFineDone
    \/ ScriptFewerValid
    \/ ScriptNoBranch
    \/ ScriptLoopTail
    \/ ScriptStartData

ConnectorCallback ==
    \/ \E c \in Chassis : connector_sensors_ready(c)
    \/ \E p \in Sensors : connector_restart_complete(p[1], p[2])
    \/ \E p \in Sensors : connector_coarse_zero_complete(p[1], p[2])
    \/ \E p \in Sensors : connector_fine_zero_complete(p[1], p[2])

NextLoop ==
    \/ ScriptStep
    \/ ConnectorCallback
    \/ Tick

SpecLoop == InitLoop /\ [][NextLoop]_vars

(***************************************************************************)
(* FieldLineLSL (FieldLineLSL.py): relay of hardware frames to the outlet  *)
(***************************************************************************)
\* class FieldLineDataType
FieldLineDataType == {"0", "28", "50"}

\* get_data_type: the data type of the channel, "None" for an unknown code
get_data_type(channel) ==
    IF channel.data_type \in FieldLineDataType THEN channel.data_type ELSE "None"

\* a test that takes only closed-loop channels as magnetometer channels
is_OPM_type_ClosedOnly(channel) == get_data_type(channel) = "50"

\* is_OPM_type: get_data_type(channel) in [CLOSED_LOOP, OPEN_LOOP]
is_OPM_type(channel) == get_data_type(channel) \in {"50", "28"}

\* class Unit_T_Factor: the factor of a unit relative to Tesla, as the
\* exponent of a power of ten
Unit_T_Factor ==
    [T |-> 0, mT |-> 3, uT |-> 6, nT |-> 9, pT |-> 12, fT |-> 15]

\* self.unit_T_factor
unit_T_factor == Unit_T_Factor[unit_T]

\* a number mant * 10^exp
Num(mant, exp) == [mant |-> mant, exp |-> exp]

\* the product of a raw reading and a scale
Times(raw, scale) == Num(raw * scale.mant, scale.exp)

\* _set_calibration_dict: channel.calibration, times unit_T_factor for a
\* magnetometer channel
CalibrationOf(channel) ==
    IF is_OPM_type(channel)
       THEN Num(channel.calibration, unit_T_factor)
       ELSE Num(channel.calibration, 0)

\* the mapping _set_calibration_dict builds for the channels chs
CalibrationDictOf(chs) ==
    [n \in {chs[i].name : i \in 1 .. Len(chs)} |->
        CalibrationOf(CHOOSE ch \in {chs[i] : i \in 1 .. Len(chs)} :
                          ch.name = n)]

\* the list _build_channel_names builds for the channels chs
NamesOf(chs) == [i \in 1 .. Len(chs) |-> chs[i].name]

ChannelSet == {channel_names[i] : i \in 1 .. Len(channel_names)}

\* get_channel_desc_dict: label, type, unit and mode of a channel
get_channel_desc_dict(channel) ==
    LET t == get_data_type(channel)
    IN  IF t = "0"
           THEN [label |-> channel.name, type |-> "misc", unit |-> "V",
                 mode |-> "ADC"]
           ELSE IF t = "50"
           THEN [label |-> channel.name, type |-> "mag", unit |-> unit_T,
                 mode |-> "Closed Loop"]
           ELSE IF t = "28"
           THEN [label |-> channel.name, type |-> "mag", unit |-> unit_T,
                 mode |-> "Open Loop"]
           ELSE [label |-> channel.name, type |-> "misc", unit |-> "?",
                 mode |-> "Unknown"]

\* the data_frames mapping of a frame is a sequence of entries (name, data)
\* in the key order of the mapping
HasKey(data_frames, n) ==
    \E i \in 1 .. Len(data_frames) : data_frames[i].name = n

\* the entry found at the position the channel has in the layout
Lookup_Positional(data_frames, n) ==
    data_frames[CHOOSE i \in 1 .. Len(channel_names) : channel_names[i] = n].data

\* data_frames[channel_name]['data']
Lookup(data_frames, n) ==
    data_frames[CHOOSE i \in 1 .. Len(data_frames) : data_frames[i].name = n].data

Reverse(q) == [i \in 1 .. Len(q) |-> q[Len(q) + 1 - i]]

\* the frame of the channels chs: the reading of the i-th channel is r + i
FullFrame(chs, r) ==
    [i \in 1 .. Len(chs) |-> [name |-> chs[i].name, data |-> r + i]]

\* the data_frames mappings the hardware may deliver for its channels: all
\* channels, the same in another key order, one channel missing, one
\* channel more
\* the frames the relay is run with when key order and further channels
\* are not looked at: all channels, one channel missing
RelayFrameChoices(chs, r) ==
    {FullFrame(chs, r), SubSeq(FullFrame(chs, r), 1, Len(chs) - 1)}

FrameChoices(chs, r) ==
    {FullFrame(chs, r),
     Reverse(FullFrame(chs, r)),
     SubSeq(FullFrame(chs, r), 1, Len(chs) - 1),
     Append(FullFrame(chs, r), [name |-> "01:00:0", data |-> r])}

\* the distances in ticks between two frames of the hardware
TickSteps == {1000, 2000}

\* the publish timestamp that reads the local clock instead of the anchor
get_timestamp_LocalClock(chassis_timestamp) == local_clock * TickRate

\* first_lsl_timestamp + (chassis_timestamp - first_chassis_timestamp) / 25000.0
\* in units of 1 / TickRate seconds
get_timestamp(chassis_timestamp) ==
    first_lsl_timestamp * TickRate
        + (chassis_timestamp - first_chassis_timestamp)

\* a callback that takes a new anchor with every frame
callback_data_available_Reanchor(tick, data_frames) ==
    /\ data_callback
    /\ Len(delivered) < MaxFrames
    /\ tick \in {hw_tick + d : d \in TickSteps}
    /\ hw_tick' = tick
    /\ first_lsl_timestamp' = local_clock
    /\ first_chassis_timestamp' = tick
    /\ data_queue' = Append(data_queue,
                            [timestamp |-> tick, data_frames |-> data_frames])
    /\ delivered' = Append(delivered, [tick |-> tick, at |-> local_clock])
    /\ UNCHANGED <<running, stream_outlet, data_callback, streaming_thread,
                   main_pc, local_clock, pushed, n_started>>
    /\ UNCHANGED <<seqvars, scriptvars, runvars, layoutvars>>

\* the hardware service hands a frame to callback_data_available: the first
\* frame sets the anchor pair, every frame is queued
callback_data_available(tick, data_frames) ==
    /\ data_callback
    /\ Len(delivered) < MaxFrames
    /\ tick \in {hw_tick + d : d \in TickSteps}
    /\ hw_tick' = tick
    /\ IF first_lsl_timestamp = NoneTs
          THEN /\ first_lsl_timestamp' = local_clock
               /\ first_chassis_timestamp' = tick
          ELSE UNCHANGED <<first_lsl_timestamp, first_chassis_timestamp>>
    /\ data_queue' = Append(data_queue,
                            [timestamp |-> tick, data_frames |-> data_frames])
    /\ delivered' = Append(delivered, [tick |-> tick, at |-> local_clock])
    /\ UNCHANGED <<running, stream_outlet, data_callback, streaming_thread,
                   main_pc, local_clock, pushed, n_started>>
    /\ UNCHANGED <<seqvars, scriptvars, runvars, layoutvars>>

\* start_streaming: open the outlet if there is none (init_stream), register
\* the callback, set running and start the streaming thread.
\* init_stream, build_stream_info: the channel count and the channel
\* descriptions of the stream are those of get_channels()
start_streaming ==
    /\ main_pc = "idle"
    /\ ~running
    /\ n_started < MaxStarts
    /\ IF stream_outlet = "None"
          THEN /\ channel_count' = Len(hw_channels)
               /\ stream_info' = [i \in 1 .. Len(hw_channels) |->
                                     get_channel_desc_dict(hw_channels[i])]
          ELSE UNCHANGED <<channel_count, stream_info>>
    /\ stream_outlet' = "open"
    /\ data_callback' = TRUE
    /\ running' = TRUE
    /\ streaming_thread' = "while"
    /\ n_started' = n_started + 1
    /\ UNCHANGED <<data_queue, first_lsl_timestamp, first_chassis_timestamp,
                   main_pc, local_clock, hw_tick, pushed, delivered>>
    /\ UNCHANGED <<unit_T, hw_channels, adc_on, channel_names,
                   calibration_dict, timed_out>>
    /\ UNCHANGED <<seqvars, scriptvars, runvars>>

\* stop_streaming, up to the join: clear running, unregister the callback
stop_streaming ==
    /\ main_pc = "idle"
    /\ running
    /\ running' = FALSE
    /\ data_callback' = FALSE
    /\ main_pc' = "stop_join"
    /\ UNCHANGED <<stream_outlet, data_queue, streaming_thread,
                   first_lsl_timestamp, first_chassis_timestamp, local_clock,
                   hw_tick, pushed, delivered, n_started>>
    /\ UNCHANGED <<seqvars, scriptvars, runvars, layoutvars>>

\* a stop_streaming that does not wait for the thread
stop_streaming_join_NoWait ==
    /\ main_pc = "stop_join"
    /\ main_pc' = "idle"
    /\ UNCHANGED <<running, stream_outlet, data_callback, data_queue,
                   streaming_thread, first_lsl_timestamp,
                   first_chassis_timestamp, local_clock, hw_tick, pushed,
                   delivered, n_started>>
    /\ UNCHANGED <<seqvars, scriptvars, runvars, layoutvars>>

\* self.streaming_thread.join() returns once the thread has ended
stop_streaming_join ==
    /\ main_pc = "stop_join"
    /\ streaming_thread \in {"finished", "crashed"}
    /\ main_pc' = "idle"
    /\ UNCHANGED <<running, stream_outlet, data_callback, data_queue,
                   streaming_thread, first_lsl_timestamp,
                   first_chassis_timestamp, local_clock, hw_tick, pushed,
                   delivered, n_started>>
    /\ UNCHANGED <<seqvars, scriptvars, runvars, layoutvars>>

\* close: stop the streaming if it runs, then drop the stream info and the
\* outlet
close ==
    /\ main_pc = "idle"
    /\ IF running
          THEN /\ running' = FALSE
               /\ data_callback' = FALSE
               /\ main_pc' = "close_join"
               /\ UNCHANGED <<stream_outlet, stream_info>>
          ELSE /\ stream_outlet' = "None"
               /\ stream_info' = NoneList
               /\ main_pc' = "closed"
               /\ UNCHANGED <<running, data_callback>>
    /\ UNCHANGED <<data_queue, streaming_thread, first_lsl_timestamp,
                   first_chassis_timestamp, local_clock, hw_tick, pushed,
                   delivered, n_started>>
    /\ UNCHANGED <<unit_T, hw_channels, adc_on, channel_names,
                   calibration_dict, channel_count, timed_out>>
    /\ UNCHANGED <<seqvars, scriptvars, runvars>>

\* close, after the join of stop_streaming: self.stream_info = None,
\* self.stream_outlet = None
close_join ==
    /\ main_pc = "close_join"
    /\ streaming_thread \in {"finished", "crashed"}
    /\ stream_outlet' = "None"
    /\ stream_info' = NoneList
    /\ main_pc' = "closed"
    /\ UNCHANGED <<running, data_callback, data_queue, streaming_thread,
                   first_lsl_timestamp, first_chassis_timestamp, local_clock,
                   hw_tick, pushed, delivered, n_started>>
    /\ UNCHANGED <<unit_T, hw_channels, adc_on, channel_names,
                   calibration_dict, channel_count, timed_out>>
    /\ UNCHANGED <<seqvars, scriptvars, runvars>>

\* thread_stream_data: while self.running
thread_while_running ==
    /\ streaming_thread = "while"
    /\ streaming_thread' = IF running THEN "get" ELSE "finished"
    /\ UNCHANGED <<running, stream_outlet, data_callback, data_queue,
                   first_lsl_timestamp, first_chassis_timestamp, main_pc,
                   local_clock, hw_tick, pushed, delivered, n_started>>
    /\ UNCHANGED <<seqvars, scriptvars, runvars, layoutvars>>

\* a relay that ends when its dequeue times out
thread_queue_empty_Ends ==
    /\ streaming_thread = "get"
    /\ data_queue = <<>>
    /\ streaming_thread' = "finished"
    /\ timed_out' = TRUE
    /\ UNCHANGED <<running, stream_outlet, data_callback, data_queue,
                   first_lsl_timestamp, first_chassis_timestamp, main_pc,
                   local_clock, hw_tick, pushed, delivered, n_started>>
    /\ UNCHANGED <<unit_T, hw_channels, adc_on, channel_names,
                   calibration_dict, channel_count, stream_info>>
    /\ UNCHANGED <<seqvars, scriptvars, runvars>>

\* thread_stream_data: data_queue.get(timeout=1) raises Empty; continue
thread_queue_empty ==
    /\ streaming_thread = "get"
    /\ data_queue = <<>>
    /\ streaming_thread' = "while"
    /\ timed_out' = TRUE
    /\ UNCHANGED <<running, stream_outlet, data_callback, data_queue,
                   first_lsl_timestamp, first_chassis_timestamp, main_pc,
                   local_clock, hw_tick, pushed, delivered, n_started>>
    /\ UNCHANGED <<unit_T, hw_channels, adc_on, channel_names,
                   calibration_dict, channel_count, stream_info>>
    /\ UNCHANGED <<seqvars, scriptvars, runvars>>

\* building the sample raises: the layout is None (TypeError), or the frame
\* or the calibration mapping lacks a channel of the layout (KeyError)
SampleRaises(data_frames) ==
    \/ channel_names = NoneList
    \/ \E n \in ChannelSet :
           ~HasKey(data_frames, n) \/ n \notin DOMAIN calibration_dict

\* sample = [data_frames[channel_name]['data'] * self._calibration_dict[channel_name]
\*           for channel_name in self.channel_names]
SampleOf(data_frames) ==
    [i \in 1 .. Len(channel_names) |->
        Times(Lookup(data_frames, channel_names[i]),
              calibration_dict[channel_names[i]])]

\* a relay in which the dimension error of push_sample is not caught
thread_process_frame_DimensionErrorFatal ==
    /\ streaming_thread = "get"
    /\ data_queue # <<>>
    /\ data_queue' = Tail(data_queue)
    /\ LET data == Head(data_queue)
       IN  IF \/ SampleRaises(data.data_frames)
              \/ stream_outlet = "None"
              \/ Len(SampleOf(data.data_frames)) # channel_count
              THEN /\ streaming_thread' = "crashed"
                   /\ UNCHANGED pushed
              ELSE /\ streaming_thread' = "while"
                   /\ pushed' = Append(pushed,
                                  [tick |-> data.timestamp,
                                   ts |-> get_timestamp(data.timestamp),
                                   at |-> local_clock,
                                   sample |-> SampleOf(data.data_frames),
                                   keys |-> NamesOf(data.data_frames),
                                   after_timeout |-> timed_out])
    /\ UNCHANGED <<running, stream_outlet, data_callback, first_lsl_timestamp,
                   first_chassis_timestamp, main_pc, local_clock, hw_tick,
                   delivered, n_started>>
    /\ UNCHANGED <<seqvars, scriptvars, runvars, layoutvars>>

\* thread_stream_data: a frame is dequeued.  The sample is built outside the
\* try block: an exception there (KeyError, TypeError) is caught by nothing
\* and the thread ends, as it does when the outlet is None.  push_sample
\* raises ValueError for a sample whose length is not the channel count of
\* the stream; that one is caught and the sample dropped.
thread_process_frame ==
    /\ streaming_thread = "get"
    /\ data_queue # <<>>
    /\ data_queue' = Tail(data_queue)
    /\ LET data == Head(data_queue)
       IN  IF SampleRaises(data.data_frames) \/ stream_outlet = "None"
              THEN /\ streaming_thread' = "crashed"
                   /\ UNCHANGED pushed
              ELSE /\ streaming_thread' = "while"
                   /\ IF Len(SampleOf(data.data_frames)) = channel_count
                         THEN pushed' = Append(pushed,
                                  [tick |-> data.timestamp,
                                   ts |-> get_timestamp(data.timestamp),
                                   at |-> local_clock,
                                   sample |-> SampleOf(data.data_frames),
                                   keys |-> NamesOf(data.data_frames),
                                   after_timeout |-> timed_out])
                         ELSE UNCHANGED pushed
    /\ UNCHANGED <<running, stream_outlet, data_callback, first_lsl_timestamp,
                   first_chassis_timestamp, main_pc, local_clock, hw_tick,
                   delivered, n_started>>
    /\ UNCHANGED <<seqvars, scriptvars, runvars, layoutvars>>

\* init_adcs(adcs): start the ADCs of the chassis asked for, stop those of
\* the other chassis
init_adcs(adcs) ==
    /\ main_pc = "idle"
    /\ adc_on' = adcs
    /\ UNCHANGED <<running, stream_outlet, data_callback, data_queue,
                   streaming_thread, first_lsl_timestamp,
                   first_chassis_timestamp, main_pc, local_clock, hw_tick,
                   pushed, delivered, n_started>>
    /\ UNCHANGED <<unit_T, hw_channels, channel_names, calibration_dict,
                   channel_count, stream_info, timed_out>>
    /\ UNCHANGED <<seqvars, scriptvars, runvars>>

\* init_sensors(adcs=adcs): restart and zero the sensors (blocking, no effect
\* on the relay), init_adcs, then _build_channel_names and
\* _set_calibration_dict from get_channels()
init_sensors(adcs) ==
    /\ main_pc = "idle"
    /\ adc_on' = adcs
    /\ channel_names' = NamesOf(hw_channels)
    /\ calibration_dict' = CalibrationDictOf(hw_channels)
    /\ UNCHANGED <<running, stream_outlet, data_callback, data_queue,
                   streaming_thread, first_lsl_timestamp,
                   first_chassis_timestamp, main_pc, local_clock, hw_tick,
                   pushed, delivered, n_started>>
    /\ UNCHANGED <<unit_T, hw_channels, channel_count, stream_info, timed_out>>
    /\ UNCHANGED <<seqvars, scriptvars, runvars>>

\* the data source reports another list of channels (a sensor or an ADC
\* channel comes or goes)
DataSourceChannelsChange ==
    /\ \E chs \in ChannelLists \ {hw_channels} : hw_channels' = chs
    /\ UNCHANGED <<running, stream_outlet, data_callback, data_queue,
                   streaming_thread, first_lsl_timestamp,
                   first_chassis_timestamp, main_pc, local_clock, hw_tick,
                   pushed, delivered, n_started>>
    /\ UNCHANGED <<unit_T, adc_on, channel_names, calibration_dict,
                   channel_count, stream_info, timed_out>>
    /\ UNCHANGED <<seqvars, scriptvars, runvars>>

\* a second of the local clock passes
ClockAdvance ==
    /\ local_clock < MaxClock
    /\ local_clock' = local_clock + 1
    /\ UNCHANGED <<running, stream_outlet, data_callback, data_queue,
                   streaming_thread, first_lsl_timestamp,
                   first_chassis_timestamp, main_pc, hw_tick, pushed,
                   delivered, n_started>>
    /\ UNCHANGED <<seqvars, scriptvars, runvars, layoutvars>>

\* the distance in ticks between two frames at 1 kHz
LayoutTickStep == CHOOSE d \in TickSteps : \A e \in TickSteps : d <= e

(***************************************************************************)
(* Specification of the relay                                              *)
(***************************************************************************)
\* the object after open() and init_sensors() on two magnetometer channels
InitRelay ==
    /\ expected_sensors = NoneVal
    /\ disable_restart = FALSE
    /\ skip_init = FALSE
    /\ excluded_sensors = {}
    /\ sensors_available = EmptySets
    /\ sensors_selected = EmptySets
    /\ sensors_restarted = EmptySets
    /\ sensors_coarse_zeroed = EmptySets
    /\ sensors_fine_zeroed = EmptySets
    /\ service_running = TRUE
    /\ pc = "relay"
    /\ batch = EmptySets
    /\ exit_reason = "none"
    /\ hw_avail = {}
    /\ restart_inflight = {}
    /\ coarse_inflight = {}
    /\ fine_inflight = {}
    /\ n_restart = [p \in Sensors |-> 0]
    /\ n_coarse = [p \in Sensors |-> 0]
    /\ n_fine = [p \in Sensors |-> 0]
    /\ turned_off = {}
    /\ seen = {}
    /\ ever_restarted = {}
    /\ ever_coarse_done = {}
    /\ ever_fine_done = {}
    /\ script = "FieldLineLSL"
    /\ init_timeout = NoTimeout
    /\ now = 0
    /\ exit_code = NoExit
    /\ data_started = FALSE
    /\ StreamingConstructed
    /\ unit_T = "fT"
    /\ hw_channels = OpmChannels
    /\ adc_on = {}
    /\ channel_names = NamesOf(OpmChannels)
    /\ calibration_dict = CalibrationDictOf(OpmChannels)
    /\ channel_count = NoCount
    /\ stream_info = NoneList
    /\ timed_out = FALSE
    /\ RunNotStarted

NextRelay ==
    \/ \E d \in TickSteps,
          data_frames \in RelayFrameChoices(hw_channels, Len(delivered) + 1) :
           callback_data_available(hw_tick + d, data_frames)
    \/ start_streaming
    \/ stop_streaming
    \/ stop_streaming_join
    \/ close
    \/ close_join
    \/ thread_while_running
    \/ thread_queue_empty
    \/ thread_process_frame
    \/ ClockAdvance

SpecRelay == InitRelay /\ [][NextRelay]_vars

(***************************************************************************)
(* Specification of the samples: the relay on a fixed layout with frames   *)
(* of every key order                                                      *)
(***************************************************************************)
NextSample ==
    \/ \E data_frames \in FrameChoices(hw_channels, Len(delivered) + 1) :
           callback_data_available(hw_tick + LayoutTickStep, data_frames)
    \/ start_streaming
    \/ stop_streaming
    \/ stop_streaming_join
    \/ thread_while_running
    \/ thread_queue_empty
    \/ thread_process_frame

SpecSample == InitRelay /\ [][NextSample]_vars

(***************************************************************************)
(* Specification of the channel layout: the relay with every unit, with    *)
(* init_sensors and init_adcs called at any time and a data source whose   *)
(* channels change                                                         *)
(***************************************************************************)
\* the units the object is constructed with
UnitChoices == {"T", "fT"}

\* the adcs arguments: False, True
AdcChoices == {{}, Chassis}

InitLayout ==
    /\ expected_sensors = NoneVal
    /\ disable_restart = FALSE
    /\ skip_init = FALSE
    /\ excluded_sensors = {}
    /\ sensors_available = EmptySets
    /\ sensors_selected = EmptySets
    /\ sensors_restarted = EmptySets
    /\ sensors_coarse_zeroed = EmptySets
    /\ sensors_fine_zeroed = EmptySets
    /\ service_running = TRUE
    /\ pc = "relay"
    /\ batch = EmptySets
    /\ exit_reason = "none"
    /\ hw_avail = {}
    /\ restart_inflight = {}
    /\ coarse_inflight = {}
    /\ fine_inflight = {}
    /\ n_restart = [p \in Sensors |-> 0]
    /\ n_coarse = [p \in Sensors |-> 0]
    /\ n_fine = [p \in Sensors |-> 0]
    /\ turned_off = {}
    /\ seen = {}
    /\ ever_restarted = {}
    /\ ever_coarse_done = {}
    /\ ever_fine_done = {}
    /\ script = "FieldLineLSL"
    /\ init_timeout = NoTimeout
    /\ now = 0
    /\ exit_code = NoExit
    /\ data_started = FALSE
    /\ RelayConstructed
    /\ unit_T \in UnitChoices
    /\ hw_channels \in ChannelLists
    /\ adc_on = {}
    /\ RunNotStarted

NextLayout ==
    \/ \E adcs \in AdcChoices : init_sensors(adcs)
    \/ \E adcs \in AdcChoices : init_adcs(adcs)
    \/ DataSourceChannelsChange
    \/ callback_data_available(hw_tick + LayoutTickStep,
                               FullFrame(hw_channels, Len(delivered) + 1))
    \/ start_streaming
    \/ stop_streaming
    \/ stop_streaming_join
    \/ thread_while_running
    \/ thread_queue_empty
    \/ thread_process_frame

SpecLayout == InitLayout /\ [][NextLayout]_vars

(***************************************************************************)
(* One run of flconnect.py or of fieldline_lsl_new.py: discovery of the    *)
(* chassis, the initialization loop (here only as the operations it may    *)
(* issue), the start of the data stream, the construction of the outlet,   *)
(* the streaming loop, and the signal handler each script installs.        *)
(***************************************************************************)
\* the data_frames mappings the hardware may deliver, each the sequence of
\* its channels in key order
FrameLayouts == ChannelLists \cup {<<UnknownChannel, ClosedLoopChannel>>}

\* the values of --chassis: absent, one chassis, all chassis
ExpectedChassisChoices == {NoneChassis, {0}, Chassis}

\* what discovery finds: nothing, all chassis but one, all chassis
DiscoveredChoices == {{}, Chassis \ {0}, Chassis}

\* the operations of the initialization loop
InitOps == {"restart", "coarse_zero", "fine_zero"}

\* an operation is issued: it is recorded, and recorded again when the
\* signal handler has run before
IssueOps(S) ==
    /\ ops' = ops \cup S
    /\ ops_after_signal' = IF signalled THEN ops_after_signal \cup S
                                        ELSE ops_after_signal

\* the process ends: sys.exit(code), an uncaught exception (status 1), or
\* the end of the script (status 0)
ProcessExit(code, reason) ==
    /\ run_pc' = "exited"
    /\ exit_code' = code
    /\ exit_reason' = reason

\* what no step of a run changes, but for the chunks pushed
RunFrameButChunks ==
    UNCHANGED <<cfgvars, connvars, pc, batch, hwvars, histvars, script,
                init_timeout, now, relayvars, discovered_chassis,
                expected_chassis, adc, duration, logvars, initvars,
                workervars, stampvars>>

\* what a step of a run other than a push leaves alone
RunFrame == RunFrameButChunks /\ UNCHANGED chunks

\* what no step before the end of the streaming loop changes
RunStreamFrame == UNCHANGED <<runtime, stop_log>>

\* fService.start(); flconnect.py enables data streaming at once
RunStart ==
    /\ run_pc = "start"
    /\ service_running' = TRUE
    /\ IF script = "flconnect"
          THEN data_started' = TRUE /\ IssueOps({"start_data"})
          ELSE UNCHANGED <<data_started, ops, ops_after_signal>>
    /\ run_pc' = "discover"
    /\ UNCHANGED <<exit_code, exit_reason, chassis_list, signalled, data_q,
                   structure_sample, outlets>>
    /\ RunFrame
    /\ RunStreamFrame

\* flconnect.py: the chassis check and fService.connect
flconnect_chassis_check ==
    /\ script = "flconnect"
    /\ run_pc = "discover"
    /\ IF expected_chassis # NoneChassis
          THEN IF ~(expected_chassis \subseteq discovered_chassis)
                  THEN /\ service_running' = FALSE
                       /\ ProcessExit(0, "sys_exit")
                       /\ UNCHANGED chassis_list
                  ELSE /\ chassis_list' = expected_chassis
                       /\ run_pc' = "init_head"
                       /\ UNCHANGED <<service_running, exit_code, exit_reason>>
          ELSE /\ chassis_list' = discovered_chassis
               /\ run_pc' = "init_head"
               /\ UNCHANGED <<service_running, exit_code, exit_reason>>
    /\ UNCHANGED <<data_started, signalled, ops, ops_after_signal, data_q,
                   structure_sample, outlets>>
    /\ RunFrame
    /\ RunStreamFrame

\* fieldline_lsl_new.py: fService.find_chassis and fService.connect.  The
\* branch of a missing expected chassis calls fService.stop() on a global
\* name that is not bound while init_sensors runs: a NameError ends the
\* process and the service is not stopped
find_chassis ==
    /\ script = "fieldline_lsl_new"
    /\ run_pc = "discover"
    /\ IF discovered_chassis = {}
          THEN /\ service_running' = FALSE
               /\ ProcessExit(1, "sys_exit")
               /\ UNCHANGED chassis_list
          ELSE IF expected_chassis = NoneChassis
          THEN /\ chassis_list' = discovered_chassis
               /\ run_pc' = "init_head"
               /\ UNCHANGED <<service_running, exit_code, exit_reason>>
          ELSE IF ~(expected_chassis \subseteq discovered_chassis)
          THEN /\ ProcessExit(1, "NameError")
               /\ UNCHANGED <<service_running, chassis_list>>
          ELSE /\ chassis_list' = expected_chassis
               /\ run_pc' = "init_head"
               /\ UNCHANGED <<service_running, exit_code, exit_reason>>
    /\ UNCHANGED <<data_started, signalled, ops, ops_after_signal, data_q,
                   structure_sample, outlets>>
    /\ RunFrame
    /\ RunStreamFrame

\* the head of the initialization loop: left when the service is not
\* running, or by one of its breaks
RunInitHead ==
    /\ run_pc = "init_head"
    /\ IF service_running
          THEN run_pc' \in {"init_body", "init_done"}
          ELSE run_pc' = "init_done"
    /\ UNCHANGED <<service_running, exit_code, exit_reason, data_started,
                   chassis_list, signalled, ops, ops_after_signal, data_q,
                   structure_sample, outlets>>
    /\ RunFrame
    /\ RunStreamFrame

\* a branch of the initialization loop issues its operation; the branch
\* of ready sensors of flconnect.py starts the ADC first when --adc is set
RunInitBody ==
    /\ run_pc = "init_body"
    /\ \E o \in InitOps :
          IssueOps(IF o = "restart" /\ script = "flconnect" /\ adc
                      THEN {o, "start_adc"} ELSE {o})
    /\ run_pc' = "init_head"
    /\ UNCHANGED <<service_running, exit_code, exit_reason, data_started,
                   chassis_list, signalled, data_q, structure_sample, outlets>>
    /\ RunFrame
    /\ RunStreamFrame

\* after the loop: fService.start_data()
RunStartData ==
    /\ run_pc = "init_done"
    /\ data_started' = TRUE
    /\ IssueOps({"start_data"})
    /\ run_pc' = "start_adc"
    /\ UNCHANGED <<service_running, exit_code, exit_reason, chassis_list,
                   signalled, data_q, structure_sample, outlets>>
    /\ RunFrame
    /\ RunStreamFrame

\* if args.adc: start_adc; fieldline_lsl_new.py stops the ADCs otherwise
RunStartAdc ==
    /\ run_pc = "start_adc"
    /\ IF adc
          THEN IssueOps({"start_adc"})
          ELSE IF script = "fieldline_lsl_new"
                  THEN IssueOps({"stop_adc"})
                  ELSE UNCHANGED <<ops, ops_after_signal>>
    /\ run_pc' = "read_sample"
    /\ UNCHANGED <<service_running, exit_code, exit_reason, data_started,
                   chassis_list, signalled, data_q, structure_sample, outlets>>
    /\ RunFrame
    /\ RunStreamFrame

\* the connector's callback_data_available: the running service delivers a
\* frame once data streaming is enabled
connector_data_available(frame) ==
    /\ run_pc \notin {"none", "start", "exited"}
    /\ service_running
    /\ data_started
    /\ Len(data_q) < MaxFrames
    /\ data_q' = Append(data_q, frame)
    /\ UNCHANGED <<run_pc, service_running, exit_code, exit_reason,
                   data_started, chassis_list, signalled, ops,
                   ops_after_signal, structure_sample, outlets>>
    /\ RunFrame
    /\ RunStreamFrame

\* structure_sample = fConnector.data_q.queue[-1]: an IndexError ends the
\* process when the queue is empty.  flconnect.py empties the queue here
RunReadSample ==
    /\ run_pc = "read_sample"
    /\ IF data_q = <<>>
          THEN /\ ProcessExit(1, "IndexError")
               /\ UNCHANGED <<structure_sample, data_q>>
          ELSE /\ structure_sample' = data_q[Len(data_q)]
               /\ run_pc' = "open_outlet"
               /\ data_q' = IF script = "flconnect" THEN <<>> ELSE data_q
               /\ UNCHANGED <<exit_code, exit_reason>>
    /\ UNCHANGED <<service_running, data_started, chassis_list, signalled,
                   ops, ops_after_signal, outlets>>
    /\ RunFrame
    /\ RunStreamFrame

\* the locals type_str, unit and scaling_factor of getStreamInfo before the
\* first pass of its loop
UnboundLocals ==
    [type_str |-> "unbound", unit |-> "unbound",
     scaling_factor |-> Num(0, 0)]

\* one pass of the loop of getStreamInfo: the locals after the channel.  A
\* data type other than 0, 28 and 50 assigns none of them
StreamInfoLocals(prev, channel) ==
    IF channel.data_type = "0"
       THEN [type_str |-> "adc", unit |-> "V",
             scaling_factor |-> Num(channel.calibration, 0)]
       ELSE IF channel.data_type \in {"28", "50"}
       THEN [type_str |-> IF channel.data_type = "28" THEN "opm_open"
                                                       ELSE "opm_closed",
             unit |-> "fT",
             scaling_factor |-> Num(channel.calibration, 12)]
       ELSE prev

\* the channel descriptions the loop of getStreamInfo appends
RECURSIVE StreamInfoChannels(_, _)
StreamInfoChannels(sample, prev) ==
    IF sample = <<>>
       THEN <<>>
       ELSE LET cur == StreamInfoLocals(prev, Head(sample))
            IN  <<[label |-> Head(sample).name, type |-> cur.type_str,
                   unit |-> cur.unit,
                   scaling_factor |-> cur.scaling_factor]>>
                \o StreamInfoChannels(Tail(sample), cur)

\* getStreamInfo raises UnboundLocalError when it reads a local that no
\* pass has assigned
getStreamInfoRaises(sample) ==
    \E i \in 1 .. Len(sample) :
        StreamInfoChannels(sample, UnboundLocals)[i].type = "unbound"

\* a descriptor whose channel count is the number of keys of the queue item
\* (timestamp, timestamp_lsl, data_frames)
getStreamInfo_ItemKeys(sample) ==
    [channel_count |-> Cardinality({"timestamp", "timestamp_lsl",
                                    "data_frames"}),
     channels |-> StreamInfoChannels(sample, UnboundLocals)]

\* FieldLineStreamOutlet.getStreamInfo
getStreamInfo(sample) ==
    [channel_count |-> Len(sample),
     channels |-> StreamInfoChannels(sample, UnboundLocals)]

\* FieldLineStreamOutlet.__init__: the outlet built from the sample, with
\* the number of frames queued at that time
StreamOutletOf(sample, queued) ==
    [sample |-> sample, queued |-> queued, info |-> getStreamInfo(sample)]

\* fllsl.FieldLineLSL.__init__, getStreamInfo: one channel for each key of
\* the sample, labelled with the key
FllslOutletOf(sample) ==
    [sample |-> sample,
     queued |-> 1,
     info |-> [channel_count |-> Len(sample),
               channels |-> [i \in 1 .. Len(sample) |->
                                [label |-> sample[i].name]]]]

\* fieldline_lsl_new.py: outlet = FieldLineStreamOutlet(structure_sample,
\* ...); fConnector.clear_queue()
RunOpenOutlet ==
    /\ script = "fieldline_lsl_new"
    /\ run_pc = "open_outlet"
    /\ IF getStreamInfoRaises(structure_sample)
          THEN /\ ProcessExit(1, "UnboundLocalError")
               /\ UNCHANGED <<outlets, data_q, ops, ops_after_signal>>
          ELSE /\ outlets' = Append(outlets,
                       StreamOutletOf(structure_sample, Len(data_q)))
               /\ data_q' = <<>>
               /\ IssueOps({"open_outlet"})
               /\ run_pc' = "stream"
               /\ UNCHANGED <<exit_code, exit_reason>>
    /\ UNCHANGED <<service_running, data_started, chassis_list, signalled,
                   structure_sample>>
    /\ RunFrame
    /\ RunStreamFrame

\* flconnect.py: outlet = FieldLineLSL(fConnector, sample, ...), the class
\* of the module fllsl: the stream has the channels of the sample
flconnect_open_outlet ==
    /\ script = "flconnect"
    /\ run_pc = "open_outlet"
    /\ outlets' = Append(outlets, FllslOutletOf(structure_sample))
    /\ IssueOps({"open_outlet"})
    /\ run_pc' = "stream"
    /\ UNCHANGED <<service_running, exit_code, exit_reason, data_started,
                   chassis_list, signalled, data_q, structure_sample>>
    /\ RunFrame
    /\ RunStreamFrame

\* a day, the duration flconnect.py runs for when none is given
DaySeconds == 86400

\* flconnect.py: --duration defaults to 0, and 0 stands for 24 hours
EffectiveDuration ==
    IF duration \in {NoDuration, 0} THEN DaySeconds ELSE duration

\* the condition of the streaming loop.
\* fieldline_lsl_new.py: while fService.is_service_running() and (duration
\*                       is None or now - streaming_start <= duration)
\* flconnect.py:         while duration > runtime
StreamingLoopRuns ==
    IF script = "fieldline_lsl_new"
       THEN service_running /\ (duration = NoDuration \/ runtime <= duration)
       ELSE EffectiveDuration > runtime

\* frame['data']: the raw reading a frame carries for a channel
Reading(channel) ==
    CASE channel.name = ClosedLoopChannel.name -> 11
      [] channel.name = OpenLoopChannel.name -> 13
      [] channel.name = AdcChannel.name -> 17
      [] OTHER -> 19

\* self.scaling_factors of the outlet the run has constructed
scaling_factors ==
    [i \in 1 .. Len(outlets[Len(outlets)].info.channels) |->
        outlets[Len(outlets)].info.channels[i].scaling_factor]

\* push_flchunk: the readings in the order of data_frames.values(), times
\* self.scaling_factors position by position
push_flchunk(data_frames) ==
    [i \in 1 .. Len(data_frames) |->
        Times(Reading(data_frames[i]), scaling_factors[i])]

\* numpy cannot broadcast the readings of a frame against scaling_factors
\* of another length
PushRaises(data_frames) == Len(data_frames) # Len(scaling_factors)

\* flconnect.py: lsldata, the readings in the order of values(), unscaled
lsldata(data_frames) ==
    [i \in 1 .. Len(data_frames) |-> Num(Reading(data_frames[i]), 0)]

\* the streaming loop takes a frame and pushes it; in fieldline_lsl_new.py
\* the ValueError of a frame of another length is not caught and ends the
\* process
RunPush ==
    /\ run_pc = "stream"
    /\ StreamingLoopRuns
    /\ data_q # <<>>
    /\ data_q' = Tail(data_q)
    /\ IF script = "fieldline_lsl_new" /\ PushRaises(Head(data_q))
          THEN /\ ProcessExit(1, "ValueError")
               /\ UNCHANGED <<ops, ops_after_signal, chunks>>
          ELSE /\ chunks' =
                      <<[data_frames |-> Head(data_q),
                         x |-> IF script = "fieldline_lsl_new"
                                  THEN push_flchunk(Head(data_q))
                                  ELSE lsldata(Head(data_q))]>>
               /\ IssueOps({"push"})
               /\ UNCHANGED <<run_pc, exit_code, exit_reason>>
    /\ UNCHANGED <<service_running, data_started, chassis_list, signalled,
                   structure_sample, outlets>>
    /\ RunFrameButChunks
    /\ RunStreamFrame

\* a second passes while the streaming loop runs (the dequeue of the loop
\* waits for a millisecond at most)
RunTick ==
    /\ run_pc = "stream"
    /\ StreamingLoopRuns
    /\ runtime < MaxTime
    /\ runtime' = runtime + 1
    /\ UNCHANGED <<run_pc, service_running, exit_code, exit_reason,
                   data_started, chassis_list, signalled, ops,
                   ops_after_signal, data_q, structure_sample, outlets,
                   stop_log>>
    /\ RunFrame

\* the condition of the streaming loop is false: the loop is left
RunLoopExit ==
    /\ run_pc = "stream"
    /\ ~StreamingLoopRuns
    /\ run_pc' = "stop_adc"
    /\ UNCHANGED <<service_running, exit_code, exit_reason, data_started,
                   chassis_list, signalled, ops, ops_after_signal, data_q,
                   structure_sample, outlets>>
    /\ RunFrame
    /\ RunStreamFrame

\* if args.adc: fService.stop_adc(...)
RunStopAdc ==
    /\ run_pc = "stop_adc"
    /\ IF adc
          THEN /\ IssueOps({"stop_adc"})
               /\ stop_log' = Append(stop_log, "stop_adc")
          ELSE UNCHANGED <<ops, ops_after_signal, stop_log>>
    /\ run_pc' = "stop_data"
    /\ UNCHANGED <<service_running, exit_code, exit_reason, data_started,
                   chassis_list, signalled, data_q, structure_sample,
                   outlets, runtime>>
    /\ RunFrame

\* fService.stop_data()
RunStopData ==
    /\ run_pc = "stop_data"
    /\ IssueOps({"stop_data"})
    /\ stop_log' = Append(stop_log, "stop_data")
    /\ run_pc' = "stop"
    /\ UNCHANGED <<service_running, exit_code, exit_reason, data_started,
                   chassis_list, signalled, data_q, structure_sample,
                   outlets, runtime>>
    /\ RunFrame

\* fieldline_lsl_new.py: fService.stop(), the last statement.  flconnect.py
\* ends after stop_data
RunShutdown ==
    /\ run_pc = "stop"
    /\ IF script = "fieldline_lsl_new"
          THEN /\ service_running' = FALSE
               /\ stop_log' = Append(stop_log, "stop")
          ELSE UNCHANGED <<service_running, stop_log>>
    /\ ProcessExit(0, "finished")
    /\ UNCHANGED <<data_started, chassis_list, signalled, ops,
                   ops_after_signal, data_q, structure_sample, outlets,
                   runtime>>
    /\ RunFrame

\* flconnect.py signal_handler: fService.stop(), and the handler returns
signal_handler ==
    /\ script = "flconnect"
    /\ run_pc \notin {"none", "start", "exited"}
    /\ ~signalled
    /\ signalled' = TRUE
    /\ service_running' = FALSE
    /\ UNCHANGED <<run_pc, exit_code, exit_reason, data_started,
                   chassis_list, ops, ops_after_signal, data_q,
                   structure_sample, outlets>>
    /\ RunFrame
    /\ RunStreamFrame

\* fieldline_lsl_new.py signal_stop_fService: fService.stop_streaming(),
\* taken to stop the service, and sys.exit()
signal_stop_fService ==
    /\ script = "fieldline_lsl_new"
    /\ run_pc \notin {"none", "start", "exited"}
    /\ ~signalled
    /\ signalled' = TRUE
    /\ service_running' = FALSE
    /\ ProcessExit(0, "signal")
    /\ UNCHANGED <<data_started, chassis_list, ops, ops_after_signal,
                   data_q, structure_sample, outlets>>
    /\ RunFrame
    /\ RunStreamFrame

\* a run with --duration 1
InitRun ==
    /\ expected_sensors = NoneVal
    /\ disable_restart = FALSE
    /\ skip_init = FALSE
    /\ excluded_sensors = {}
    /\ sensors_available = EmptySets
    /\ sensors_selected = EmptySets
    /\ sensors_restarted = EmptySets
    /\ sensors_coarse_zeroed = EmptySets
    /\ sensors_fine_zeroed = EmptySets
    /\ service_running = FALSE
    /\ pc = "run"
    /\ batch = EmptySets
    /\ exit_reason = "none"
    /\ hw_avail = {}
    /\ restart_inflight = {}
    /\ coarse_inflight = {}
    /\ fine_inflight = {}
    /\ n_restart = [p \in Sensors |-> 0]
    /\ n_coarse = [p \in Sensors |-> 0]
    /\ n_fine = [p \in Sensors |-> 0]
    /\ turned_off = {}
    /\ seen = {}
    /\ ever_restarted = {}
    /\ ever_coarse_done = {}
    /\ ever_fine_done = {}
    /\ script \in {"flconnect", "fieldline_lsl_new"}
    /\ init_timeout = NoTimeout
    /\ now = 0
    /\ exit_code = NoExit
    /\ data_started = FALSE
    /\ RelayConstructed
    /\ unit_T = "fT"
    /\ hw_channels = OpmChannels
    /\ adc_on = {}
    /\ run_pc = "start"
    /\ discovered_chassis \in DiscoveredChoices
    /\ expected_chassis \in ExpectedChassisChoices
    /\ adc \in BOOLEAN
    /\ chassis_list = NoneChassis
    /\ signalled = FALSE
    /\ ops = {}
    /\ ops_after_signal = {}
    /\ data_q = <<>>
    /\ structure_sample = NoSample
    /\ outlets = <<>>
    /\ duration = 1
    /\ runtime = 0
    /\ stop_log = <<>>
    /\ chunks = <<>>
    /\ LoggingNotConfigured
    /\ InitSensorsNotCalled
    /\ WorkersNotStarted

NextRun ==
    \/ RunStart
    \/ flconnect_chassis_check
    \/ find_chassis
    \/ RunInitHead
    \/ RunInitBody
    \/ RunStartData
    \/ RunStartAdc
    \/ \E frame \in FrameLayouts : connector_data_available(frame)
    \/ RunReadSample
    \/ RunOpenOutlet
    \/ flconnect_open_outlet
    \/ RunPush
    \/ RunTick
    \/ RunLoopExit
    \/ RunStopAdc
    \/ RunStopData
    \/ RunShutdown
    \/ signal_handler
    \/ signal_stop_fService

SpecRun == InitRun /\ [][NextRun]_vars

(***************************************************************************)
(* The streaming loop of a run, from the state in which it is entered:     *)
(* all chassis connected, the sensors initialized, the data stream         *)
(* started, the outlet built from a frame of two magnetometer channels and *)
(* the queue emptied.                                                      *)
(***************************************************************************)
\* the frames delivered while the script streams: those of FrameLayouts and
\* one with the keys of the structure sample in another order
StreamFrames == FrameLayouts \cup {<<OpenLoopChannel, ClosedLoopChannel>>}

\* the values of --duration: absent, 0, one second
DurationChoices == {NoDuration, 0, 1}

\* the operations a script has issued when it enters its streaming loop
OpsBeforeStreaming ==
    InitOps \cup {"start_data", "open_outlet"}
        \cup (IF adc THEN {"start_adc"}
                     ELSE IF script = "fieldline_lsl_new" THEN {"stop_adc"}
                                                          ELSE {})

InitStream ==
    /\ expected_sensors = NoneVal
    /\ disable_restart = FALSE
    /\ skip_init = FALSE
    /\ excluded_sensors = {}
    /\ sensors_available = EmptySets
    /\ sensors_selected = EmptySets
    /\ sensors_restarted = EmptySets
    /\ sensors_coarse_zeroed = EmptySets
    /\ sensors_fine_zeroed = EmptySets
    /\ service_running = TRUE
    /\ pc = "run"
    /\ batch = EmptySets
    /\ exit_reason = "none"
    /\ hw_avail = {}
    /\ restart_inflight = {}
    /\ coarse_inflight = {}
    /\ fine_inflight = {}
    /\ n_restart = [p \in Sensors |-> 0]
    /\ n_coarse = [p \in Sensors |-> 0]
    /\ n_fine = [p \in Sensors |-> 0]
    /\ turned_off = {}
    /\ seen = {}
    /\ ever_restarted = {}
    /\ ever_coarse_done = {}
    /\ ever_fine_done = {}
    /\ script \in {"flconnect", "fieldline_lsl_new"}
    /\ init_timeout = NoTimeout
    /\ now = 0
    /\ exit_code = NoExit
    /\ data_started = TRUE
    /\ RelayConstructed
    /\ unit_T = "fT"
    /\ hw_channels = OpmChannels
    /\ adc_on = {}
    /\ run_pc = "stream"
    /\ discovered_chassis = Chassis
    /\ expected_chassis = NoneChassis
    /\ adc \in BOOLEAN
    /\ chassis_list = Chassis
    /\ signalled = FALSE
    /\ ops = OpsBeforeStreaming
    /\ ops_after_signal = {}
    /\ data_q = <<>>
    /\ structure_sample = OpmChannels
    /\ outlets = <<IF script = "fieldline_lsl_new"
                      THEN StreamOutletOf(OpmChannels, 1)
                      ELSE FllslOutletOf(OpmChannels)>>
    /\ duration \in DurationChoices
    /\ runtime = 0
    /\ stop_log = <<>>
    /\ chunks = <<>>
    /\ LoggingNotConfigured
    /\ InitSensorsNotCalled
    /\ WorkersNotStarted

NextStream ==
    \/ \E frame \in StreamFrames : connector_data_available(frame)
    \/ RunPush
    \/ RunTick
    \/ RunLoopExit
    \/ RunStopAdc
    \/ RunStopData
    \/ RunShutdown
    \/ signal_handler
    \/ signal_stop_fService

SpecStream == InitStream /\ [][NextStream]_vars

(***************************************************************************)
(* The logging configuration of lsl/lslmain.py, flconnect.py and           *)
(* fieldline_lsl_new.py: the count of -v flags selects the level of the    *)
(* root logger and, in fieldline_lsl_new.py, of the logger of the script.  *)
(* Two invocations of a script are configured side by side.                *)
(***************************************************************************)
\* the largest count of -v flags
MaxVerbose == 4

\* lslmain.py: [logging.ERROR, logging.WARNING, logging.INFO, logging.DEBUG]
LevelList == <<"ERROR", "WARNING", "INFO", "DEBUG">>

\* the levels configured without error
LevelsOk(root, logger) == [status |-> "ok", root |-> root, logger |-> logger]

\* lslmain.py: level=[...][args.verbose]; the logger of the script has no
\* level of its own
lslmain_basicConfig(v) ==
    IF v + 1 \in 1 .. Len(LevelList)
       THEN LevelsOk(LevelList[v + 1], LevelList[v + 1])
       ELSE [status |-> "IndexError", root |-> "NOTSET", logger |-> "NOTSET"]

\* flconnect.py set_logging: the script logs through the root logger
set_logging(v) ==
    IF v = 0 THEN LevelsOk("ERROR", "ERROR")
    ELSE IF v = 1 THEN LevelsOk("WARNING", "WARNING")
    ELSE IF v = 2 THEN LevelsOk("INFO", "INFO")
    ELSE LevelsOk("DEBUG", "DEBUG")

\* fieldline_lsl_new.py: logging_config['level'] and logger.setLevel
fieldline_lsl_new_logging(v) ==
    IF v = 0 THEN LevelsOk("WARNING", "INFO")
    ELSE IF v = 1 THEN LevelsOk("WARNING", "DEBUG")
    ELSE IF v = 2 THEN LevelsOk("INFO", "INFO")
    ELSE LevelsOk("DEBUG", "DEBUG")

\* the configuration the script selects
LevelsFor(v) ==
    IF script = "lslmain" THEN lslmain_basicConfig(v)
    ELSE IF script = "flconnect" THEN set_logging(v)
    ELSE fieldline_lsl_new_logging(v)

\* argparse, action='count': one more -v on the command line
parse_verbose_flag(r) ==
    /\ log_level[r].status = "unset"
    /\ verbose[r] < MaxVerbose
    /\ verbose' = [verbose EXCEPT ![r] = verbose[r] + 1]
    /\ UNCHANGED <<log_level, seqvars, scriptvars, relayvars, flowvars,
                   initvars, workervars, stampvars>>

\* the script configures logging
configure_logging(r) ==
    /\ log_level[r].status = "unset"
    /\ log_level' = [log_level EXCEPT ![r] = LevelsFor(verbose[r])]
    /\ UNCHANGED <<verbose, seqvars, scriptvars, relayvars, flowvars,
                   initvars, workervars, stampvars>>

InitLogging ==
    /\ expected_sensors = NoneVal
    /\ disable_restart = FALSE
    /\ skip_init = FALSE
    /\ excluded_sensors = {}
    /\ sensors_available = EmptySets
    /\ sensors_selected = EmptySets
    /\ sensors_restarted = EmptySets
    /\ sensors_coarse_zeroed = EmptySets
    /\ sensors_fine_zeroed = EmptySets
    /\ service_running = FALSE
    /\ pc = "run"
    /\ batch = EmptySets
    /\ exit_reason = "none"
    /\ hw_avail = {}
    /\ restart_inflight = {}
    /\ coarse_inflight = {}
    /\ fine_inflight = {}
    /\ n_restart = [p \in Sensors |-> 0]
    /\ n_coarse = [p \in Sensors |-> 0]
    /\ n_fine = [p \in Sensors |-> 0]
    /\ turned_off = {}
    /\ seen = {}
    /\ ever_restarted = {}
    /\ ever_coarse_done = {}
    /\ ever_fine_done = {}
    /\ script \in {"lslmain", "flconnect", "fieldline_lsl_new"}
    /\ init_timeout = NoTimeout
    /\ now = 0
    /\ exit_code = NoExit
    /\ data_started = FALSE
    /\ RelayConstructed
    /\ unit_T = "fT"
    /\ hw_channels = OpmChannels
    /\ adc_on = {}
    /\ RunNotStarted

NextLogging ==
    \/ \E r \in Invocations : parse_verbose_flag(r)
    \/ \E r \in Invocations : configure_logging(r)

SpecLogging == InitLogging /\ [][NextLogging]_vars

\* weak fairness of the polling loop (it never blocks) and of the hardware
\* service's callback delivery (every issued operation is answered)
FairSpec == Spec /\ WF_vars(MainStep) /\ WF_vars(Callback)

(***************************************************************************)
(* Properties of the sequencer                                             *)
(***************************************************************************)
\* the sensors of chassis c in a set of sensors
IdsOf(S, c) == {s \in SensorIds : <<c, s>> \in S}

\* C1: coarse-zero (fine-zero) is issued only in a state where, for every
\* chassis, the sensors that reported restart-complete (coarse-zero-complete),
\* the batch handed to the operation and the selected sensors are the same set
C1_TransitionOnlyWhenStageComplete ==
    /\ pc = "issue_coarse" =>
           \A c \in Chassis : /\ batch[c] = sensors_selected[c]
                              /\ IdsOf(ever_restarted, c) = sensors_selected[c]
    /\ pc = "issue_fine" =>
           \A c \in Chassis : /\ batch[c] = sensors_selected[c]
                              /\ IdsOf(ever_coarse_done, c) = sensors_selected[c]

\* both stage transitions have been taken, with sensors of every chassis
C1_Witness ==
    /\ pc = "issue_fine"
    /\ \A c \in Chassis : batch[c] = SensorIds
    /\ \A p \in Sensors : n_coarse[p] = 1

\* C2: with an allow-list, a sensor outside it is turned off when the loop
\* sees it, is never selected, and no restart, coarse-zero or fine-zero is
\* ever issued for it
C2_UnexpectedSensorNeverInitialized ==
    expected_sensors # NoneVal =>
        \A p \in Sensors \ expected_sensors :
            /\ p \in seen => p \in turned_off
            /\ p[2] \notin sensors_selected[p[1]]
            /\ p \notin ever_restarted
            /\ n_restart[p] = 0 /\ n_coarse[p] = 0 /\ n_fine[p] = 0

\* an unexpected sensor was turned off while an expected one of the same
\* chassis went through to fine-zeroing
C2_Witness ==
    /\ expected_sensors # NoneVal
    /\ \E p \in turned_off, q \in Sensors :
           p[1] = q[1] /\ q \in expected_sensors /\ n_fine[q] = 1

\* C3: per sensor the stages are ordered: coarse-zero only after the sensor
\* was selected and marked restarted (after its restart was issued, unless
\* restarts are disabled), fine-zero only after its coarse-zero was issued and
\* reported complete
C3_StagesInOrder ==
    \A p \in Sensors :
        /\ n_restart[p] > 0 => p[2] \in sensors_selected[p[1]]
        /\ n_coarse[p] > 0 =>
               /\ p[2] \in sensors_selected[p[1]]
               /\ p \in ever_restarted
               /\ disable_restart \/ n_restart[p] > 0
        /\ n_fine[p] > 0 => n_coarse[p] > 0 /\ p \in ever_coarse_done

\* a sensor went through restart, coarse-zero and fine-zero
C3_Witness ==
    \E p \in Sensors :
        n_restart[p] = 1 /\ n_coarse[p] = 1 /\ n_fine[p] = 1 /\ p \in ever_fine_done

\* C4 (as claimed): every chassis reports its two sensors and every operation
\* is answered; when the sequencer leaves its loop with success, restart,
\* coarse-zero and fine-zero were issued for all sensors of all chassis
C4_SuccessMeansAllSensorsInitialized ==
    (/\ pc = "returned"
     /\ exit_reason = "fine_zeroed"
     /\ hw_avail = {}
     /\ expected_sensors = NoneVal
     /\ ~disable_restart) =>
        \A p \in Sensors : n_restart[p] > 0 /\ n_coarse[p] > 0 /\ n_fine[p] > 0

\* C4 (as claimed, liveness): the sequencer eventually leaves its loop
C4_EventuallySuccess ==
    (expected_sensors = NoneVal /\ ~disable_restart /\ ~skip_init) =>
        <>(~service_running \/ pc = "returned")

\* C7 (as claimed): with restarts disabled no restart is issued, a selected
\* sensor is marked restarted when it is selected, and the sequencer
\* eventually leaves its loop having issued coarse-zero and fine-zero for
\* every selected sensor (unless the service stops first)
C7_NoRestartIssued ==
    disable_restart =>
        /\ \A p \in Sensors : n_restart[p] = 0
        /\ \A c \in Chassis : sensors_selected[c] \subseteq IdsOf(ever_restarted, c)

C7_SkipRestartReachesSuccess ==
    (disable_restart /\ ~skip_init /\ expected_sensors = NoneVal) =>
        <>(\/ ~service_running
           \/ /\ pc = "returned"
              /\ \A p \in PairsOf(sensors_selected) :
                     n_coarse[p] > 0 /\ n_fine[p] > 0)

(***************************************************************************)
(* Properties of the script loop (lsl/lslmain.py, start_lsl_stream.py)     *)
(***************************************************************************)
\* a valid sensor that has not reported restart-complete
ValidUnrestarted == PairsOf(sensors_selected) \ ever_restarted

\* C5 (first part, holds): while a valid sensor has not reported
\* restart-complete the loop issues no coarse-zero.
C5_NoCoarseZeroWhileUnrestarted ==
    [][(ValidUnrestarted # {}) => (n_coarse' = n_coarse)]_vars

\* C5 (last part, holds): a loop that holds a valid sensor which has not
\* reported restart-complete does not start the data stream.
C5_NoStreamingWhileUnrestarted ==
    (ValidUnrestarted # {}) => ~data_started

\* C5 (holds for a positive timeout): the timeout test at the end of an
\* iteration stops the service and exits with code 1.
C5_PositiveTimeoutStops ==
    [][(/\ ScriptLoopTail
        /\ init_timeout # NoTimeout /\ init_timeout > 0
        /\ now > init_timeout
        /\ ValidUnrestarted # {})
       => (exit_code' = 1 /\ ~service_running' /\ pc' = "exited")]_vars

\* C5: with a timeout T configured and a valid sensor that has not reported
\* restart-complete, the end of an iteration at which the elapsed time
\* exceeds T stops the service and exits with code 1.
C5_TimeoutStopsInitialization ==
    [][(/\ ScriptLoopTail
        /\ init_timeout # NoTimeout
        /\ now > init_timeout
        /\ ValidUnrestarted # {})
       => (exit_code' = 1 /\ ~service_running' /\ pc' = "exited")]_vars

\* an iteration of the loop passes its if / elif chain
BranchStep == pc = "loop_branch" /\ pc' # "loop_branch"

\* fewer valid sensors than entries of the expected list
FewerValidThanExpected ==
    /\ expected_sensors # NoneVal
    /\ Cardinality(PairsOf(sensors_selected)) < Cardinality(expected_sensors)

C8_TimestampFromAnchor ==
    \A i \in 1 .. Len(pushed) :
        pushed[i].ts =
            delivered[1].at * TickRate + (pushed[i].tick - delivered[1].tick)

\* the anchor frame and a later frame were both pushed after the local
\* clock had moved on from the arrival of the anchor frame
C8_Witness ==
    /\ Len(pushed) >= 2
    /\ pushed[1].tick = delivered[1].tick
    /\ pushed[1].at > delivered[1].at
    /\ pushed[1].ts = delivered[1].at * TickRate
    /\ pushed[2].tick > delivered[1].tick
    /\ pushed[2].at > pushed[1].at
    /\ pushed[2].ts - pushed[1].ts = pushed[2].tick - pushed[1].tick

\* the anchor pair of the object
Anchor == <<first_lsl_timestamp, first_chassis_timestamp>>

\* C9: the anchor pair is written exactly once, by the first call of
\* callback_data_available (it is unset exactly as long as no frame was
\* delivered, and it is set to the clock and tick of that first frame), and
\* no later step - a later frame, stop_streaming, start_streaming, close -
\* changes it.
C9_AnchorWrittenOnce ==
    [][/\ (Anchor # <<NoneTs, NoneTs>>) => (Anchor' = Anchor)
       /\ (Anchor' # Anchor) =>
              /\ delivered = <<>>
              /\ Len(delivered') = 1
              /\ Anchor' = <<delivered'[1].at, delivered'[1].tick>>
       /\ (delivered' # <<>>) => (Anchor' # <<NoneTs, NoneTs>>)]_vars

\* the anchor is that of the first frame after streaming was stopped and
\* started again, a later frame arrived at a later clock, and the object
\* was closed
C9_Witness ==
    /\ main_pc = "closed"
    /\ n_started = 2
    /\ Len(delivered) >= 2
    /\ delivered[2].at > delivered[1].at
    /\ Anchor = <<delivered[1].at, delivered[1].tick>>

\* the frame at the head of the queue lacks a channel of the layout
HeadLacksChannel ==
    /\ data_queue # <<>>
    /\ channel_names # NoneList
    /\ \E n \in ChannelSet : ~HasKey(Head(data_queue).data_frames, n)

\* C10: when the relay thread dequeues a frame that lacks a channel of the
\* layout, nothing is pushed for it, the thread goes on with its loop and
\* the outlet stays open.
C10_MissingChannelDropsOnlySample ==
    [][(thread_process_frame /\ HeadLacksChannel)
       => (/\ pushed' = pushed
           /\ streaming_thread' = "while"
           /\ stream_outlet' = stream_outlet)]_vars

(***************************************************************************)
(* Properties of the relay: samples, layout, shutdown                      *)
(***************************************************************************)
\* the relay thread takes the frame at the head of the queue
DequeueStep == data_queue # <<>> /\ data_queue' = Tail(data_queue)

\* the sample of the frame at the head of the queue can be built, and its
\* length is not the channel count the stream was declared with
HeadHasWrongDimension ==
    /\ data_queue # <<>>
    /\ stream_outlet = "open"
    /\ channel_names # NoneList
    /\ \A n \in ChannelSet :
           HasKey(Head(data_queue).data_frames, n) /\ n \in DOMAIN calibration_dict
    /\ Len(channel_names) # channel_count

\* C11: when the push of a sample fails because the number of its values is
\* not the declared channel count, the sample is dropped (nothing is
\* pushed, the frame is gone from the queue), the relay thread goes on with
\* its loop, and the outlet and its declared layout stay as they are.
C11_DimensionErrorDropsSample ==
    [][(DequeueStep /\ HeadHasWrongDimension)
       => (/\ pushed' = pushed
           /\ streaming_thread' = "while"
           /\ stream_outlet' = "open"
           /\ channel_count' = channel_count
           /\ stream_info' = stream_info
           /\ running' = running)]_vars

\* the only frame delivered was taken from the queue by the first relay
\* thread and not pushed, the layout has another length than the declared
\* channel count, and the thread is back at the head of its loop
C11_Witness ==
    /\ n_started = 1
    /\ Len(delivered) = 1
    /\ data_queue = <<>>
    /\ pushed = <<>>
    /\ streaming_thread = "while"
    /\ running
    /\ stream_outlet = "open"
    /\ channel_names # NoneList
    /\ Len(channel_names) # channel_count

\* every channel the data source can report
AllChannels == {ClosedLoopChannel, OpenLoopChannel, AdcChannel, UnknownChannel}

\* C12: the calibration mapping has an entry for every channel name of the
\* layout; the entry of a magnetometer channel (data type '28' or '50') is
\* the SDK calibration times the unit multiplier (10^15 for fT), that of
\* an ADC channel (data type '0') is the SDK calibration itself.
C12_CalibrationScale ==
    (calibration_dict # NoneDict) =>
        /\ DOMAIN calibration_dict = ChannelSet
        /\ \A ch \in AllChannels :
               (ch.name \in DOMAIN calibration_dict) =>
                   /\ (ch.data_type \in {"28", "50"}) =>
                          /\ calibration_dict[ch.name].mant = ch.calibration
                          /\ calibration_dict[ch.name].exp =
                                 Unit_T_Factor[unit_T]
                          /\ (unit_T = "fT") =>
                                 calibration_dict[ch.name].exp = 15
                   /\ (ch.data_type = "0") =>
                          calibration_dict[ch.name] = Num(ch.calibration, 0)

\* the mapping was built for femtotesla from an open-loop, a closed-loop
\* and an ADC channel
C12_Witness ==
    /\ unit_T = "fT"
    /\ calibration_dict # NoneDict
    /\ DOMAIN calibration_dict =
           {ClosedLoopChannel.name, OpenLoopChannel.name, AdcChannel.name}
    /\ calibration_dict[OpenLoopChannel.name] = Num(3, 15)
    /\ calibration_dict[AdcChannel.name] = Num(5, 0)

\* C13: the value at position i of a published sample is the raw reading
\* the frame holds for the channel named channel_names[i], times the
\* calibration entry of that channel, whatever the key order of the frame
\* and whatever further channels it carries.
C13_SampleValues ==
    [][(pushed' # pushed) =>
          LET f == Head(data_queue).data_frames
              smp == pushed'[Len(pushed')].sample
          IN  /\ Len(smp) = Len(channel_names)
              /\ \A i \in 1 .. Len(channel_names) :
                     \E j \in 1 .. Len(f) :
                         /\ f[j].name = channel_names[i]
                         /\ smp[i].mant =
                                f[j].data * calibration_dict[channel_names[i]].mant
                         /\ smp[i].exp = calibration_dict[channel_names[i]].exp]_vars

\* a sample was published from a frame in reversed key order, and one from
\* a frame with a further channel
C13_Witness ==
    /\ Len(pushed) >= 2
    /\ \E i \in 1 .. Len(pushed) :
           pushed[i].keys = Reverse(channel_names)
    /\ \E i \in 1 .. Len(pushed) :
           Len(pushed[i].keys) > Len(channel_names)

\* the layout the relay works with
Layout == <<channel_names, calibration_dict, channel_count>>

\* C14 (first part): once the outlet exists and the layout is set, no
\* operation that keeps the outlet changes channel_names, the calibration
\* mapping or the declared channel count.
C14_LayoutFixedOnceOutletCreated ==
    [][(/\ stream_outlet = "open" /\ stream_outlet' = "open"
        /\ channel_names # NoneList)
       => (Layout' = Layout)]_vars

\* C14 (second part): while the relay runs on a layout, the length of
\* channel_names is the declared channel count of the stream.
C14_LayoutLengthIsChannelCount ==
    (/\ running
     /\ streaming_thread \in {"while", "get"}
     /\ channel_names # NoneList)
    => (Len(channel_names) = channel_count)

\* the relay thread takes a step from its blocking dequeue with nothing in
\* the queue
EmptyDequeueStep ==
    /\ streaming_thread = "get"
    /\ data_queue = <<>>
    /\ streaming_thread' # streaming_thread

\* C15: a dequeue that times out does not end the relay: the thread goes
\* back to the head of its loop, nothing is pushed, the running flag and
\* the outlet are untouched (and with running still true the loop waits
\* again and publishes the frame that arrives next).
C15_EmptyDequeueKeepsRelay ==
    [][EmptyDequeueStep
       => (/\ streaming_thread' = "while"
           /\ pushed' = pushed
           /\ running' = running
           /\ stream_outlet' = stream_outlet)]_vars

\* a frame that arrived after a dequeue had timed out was published by the
\* same relay thread
C15_Witness ==
    /\ n_started = 1
    /\ streaming_thread \in {"while", "get"}
    /\ \E i \in 1 .. Len(pushed) : pushed[i].after_timeout

\* the relay thread has ended or was never started
ThreadEnded == streaming_thread \in {"None", "finished", "crashed"}

InterruptForbidden ==
    InitOps \cup {"start_data", "start_adc", "open_outlet", "push"}

\* C17: once the signal handler of a script has run, the hardware service
\* is stopped, the process has exited, and the script has issued no
\* restart, zeroing, start_data or start_adc and has neither opened nor fed
\* the output stream since.
C17_InterruptEndsRun ==
    signalled =>
        /\ ~service_running
        /\ run_pc = "exited"
        /\ ops_after_signal \cap InterruptForbidden = {}

\* C17, for fieldline_lsl_new.py alone: its handler exits the process
C17_NewScriptInterruptEndsRun ==
    (script = "fieldline_lsl_new" /\ signalled) =>
        /\ ~service_running
        /\ run_pc = "exited"
        /\ ops_after_signal = {}

\* C17, for flconnect.py: its handler does stop the service
C17_HandlerStopsService == signalled => ~service_running

\* the interrupt arrived during initialization, resp. during streaming
C17_WitnessInit ==
    /\ script = "fieldline_lsl_new"
    /\ signalled
    /\ "restart" \in ops
    /\ outlets = <<>>

C17_WitnessStreaming ==
    /\ script = "fieldline_lsl_new"
    /\ signalled
    /\ "push" \in ops

\* an expected chassis is not among the discovered ones, or none is
\* discovered
DiscoveryFails ==
    \/ discovered_chassis = {}
    \/ /\ expected_chassis # NoneChassis
       /\ ~(expected_chassis \subseteq discovered_chassis)

\* the step of the chassis check
ChassisCheckStep == run_pc = "discover" /\ run_pc' # "discover" /\ ~signalled'

\* C18: when an expected chassis is not discovered, or no chassis at all,
\* the chassis check stops the service and exits with code 1; connect is
\* never called and no sensor operation is issued in such a run.
C18_DiscoveryFailureExits ==
    /\ [][(DiscoveryFails /\ ChassisCheckStep) =>
            /\ ~service_running'
            /\ run_pc' = "exited"
            /\ exit_code' = 1]_vars
    /\ [](DiscoveryFails =>
            /\ chassis_list = NoneChassis
            /\ ops \cap InitOps = {})

\* C18, the part that holds in both scripts: a run in which an expected
\* chassis is missing never calls connect and issues no sensor operation
C18_MissingExpectedNeverConnects ==
    (expected_chassis # NoneChassis
        /\ ~(expected_chassis \subseteq discovered_chassis)) =>
        /\ chassis_list = NoneChassis
        /\ ops \cap InitOps = {}

\* C18, fieldline_lsl_new.py with no chassis discovered: as specified
C18_NewScriptNothingDiscovered ==
    (script = "fieldline_lsl_new" /\ discovered_chassis = {}
        /\ run_pc \notin {"start", "discover"} /\ ~signalled) =>
        /\ ~service_running
        /\ run_pc = "exited"
        /\ exit_code = 1
        /\ chassis_list = NoneChassis
        /\ ops = {}

C18_Witness ==
    /\ script = "fieldline_lsl_new"
    /\ discovered_chassis = {}
    /\ ~signalled
    /\ run_pc = "exited"

\* the frames in the queue
QueuedFrames == {data_q[i] : i \in 1 .. Len(data_q)}

\* the step that constructs the outlet of fieldline_lsl_new.py
OutletConstructed ==
    script = "fieldline_lsl_new" /\ Len(outlets') > Len(outlets)

\* C19: a run of fieldline_lsl_new.py constructs the output stream at most
\* once, has constructed it when it streams, and constructs it only while
\* a frame is in the queue; the channel count and the order of the channel
\* labels are those of the data_frames mapping of that frame.
C19_OutletFromObservedFrame ==
    /\ []((script = "fieldline_lsl_new") =>
            /\ Len(outlets) <= 1
            /\ run_pc = "stream" => Len(outlets) = 1)
    /\ [][OutletConstructed =>
            LET o == outlets'[Len(outlets')]
            IN  /\ data_q # <<>>
                /\ o.sample \in QueuedFrames
                /\ o.info.channel_count = Len(o.sample)
                /\ Len(o.info.channels) = Len(o.sample)
                /\ \A i \in 1 .. Len(o.sample) :
                      o.info.channels[i].label = o.sample[i].name]_vars

\* an outlet built from a frame of three channels, after a frame of two
C19_Witness ==
    /\ script = "fieldline_lsl_new"
    /\ Len(outlets) = 1
    /\ outlets[1].queued = 2
    /\ Len(outlets[1].sample) = 3

\* the channels of a frame whose data type is none of the known codes
UnknownTypeAt(sample) ==
    {i \in 1 .. Len(sample) : sample[i].data_type \notin FieldLineDataType}

\* C20: the construction of the stream descriptor never fails on a channel
\* of unknown data type, and describes such a channel with type 'misc',
\* unit '?' and mode 'Unknown' - here for the descriptor of
\* fieldline_lsl_outlet.py, which has no mode entry.
C20_UnknownTypeDescribedAsMisc ==
    /\ exit_reason # "UnboundLocalError"
    /\ \A k \in 1 .. Len(outlets) :
          script = "fieldline_lsl_new" =>
             \A i \in UnknownTypeAt(outlets[k].sample) :
                /\ outlets[k].info.channels[i].type = "misc"
                /\ outlets[k].info.channels[i].unit = "?"

\* C20, for the descriptor of FieldLineLSL.py (build_stream_info): as
\* specified
C20_FieldLineLSLDescribesUnknownAsMisc ==
    stream_info # NoneList =>
        \A i \in 1 .. Len(stream_info) :
           \A ch \in AllChannels :
              (ch.name = stream_info[i].label
                  /\ ch.data_type \notin FieldLineDataType) =>
                 /\ stream_info[i].type = "misc"
                 /\ stream_info[i].unit = "?"
                 /\ stream_info[i].mode = "Unknown"

C20_WitnessFieldLineLSL ==
    /\ stream_info # NoneList
    /\ \E i \in 1 .. Len(stream_info) :
          stream_info[i].label = UnknownChannel.name


(***************************************************************************)
(* C21: the end of the streaming loop                                      *)
(***************************************************************************)
\* a duration is given; the 0 of flconnect.py stands for 24 hours
DurationConfigured ==
    duration # NoDuration /\ ~(script = "flconnect" /\ duration = 0)

\* an iteration of the streaming loop takes a frame from the queue
PushStep == run_pc = "stream" /\ data_q # <<>> /\ data_q' = Tail(data_q)

\* the stop operations of the end of a run, in their order
StopOrder ==
    (IF adc THEN <<"stop_adc">> ELSE <<>>) \o <<"stop_data", "stop">>

\* C21: with a duration d configured the streaming loop takes no frame
\* once more than d seconds have passed and can be left then, with or
\* without frames in the queue; a run that ends after the loop has stopped
\* the ADC (if enabled), the data stream and the service, in that order;
\* with no duration the loop is not left while the service is running.
C21_StreamingLoopTermination ==
    /\ [][(DurationConfigured /\ runtime > duration) => ~PushStep]_vars
    /\ []((run_pc = "stream" /\ DurationConfigured /\ runtime > duration)
             => ENABLED RunLoopExit)
    /\ []((exit_reason = "finished") =>
             (stop_log = StopOrder /\ ~service_running))
    /\ [][(duration = NoDuration /\ run_pc = "stream"
              /\ service_running /\ service_running')
             => run_pc' = "stream"]_vars

\* C21, for fieldline_lsl_new.py alone; with no duration the loop is left
\* while the service runs only by the ValueError of a frame whose length is
\* not that of the structure sample
C21_NewScriptLoopTermination ==
    /\ [][(script = "fieldline_lsl_new" /\ DurationConfigured
              /\ runtime > duration) => ~PushStep]_vars
    /\ []((script = "fieldline_lsl_new" /\ run_pc = "stream"
              /\ DurationConfigured /\ runtime > duration)
             => ENABLED RunLoopExit)
    /\ []((script = "fieldline_lsl_new" /\ exit_reason = "finished") =>
             (stop_log = StopOrder /\ ~service_running))
    /\ [][(script = "fieldline_lsl_new" /\ duration = NoDuration
              /\ run_pc = "stream" /\ service_running /\ service_running')
             => (run_pc' = "stream" \/ exit_reason' = "ValueError")]_vars

\* C21, what flconnect.py does at the end: the ADC and the data stream are
\* stopped in that order, and the loop takes no frame after the duration
C21_FlconnectStopsDataOnly ==
    /\ [][(script = "flconnect" /\ DurationConfigured
              /\ runtime > duration) => ~PushStep]_vars
    /\ []((script = "flconnect" /\ exit_reason = "finished") =>
             stop_log = (IF adc THEN <<"stop_adc">> ELSE <<>>)
                           \o <<"stop_data">>)

\* a run of fieldline_lsl_new.py with ADC that ended after its duration,
\* frames still queued
C21_Witness ==
    /\ script = "fieldline_lsl_new"
    /\ adc
    /\ duration = 1
    /\ exit_reason = "finished"
    /\ data_q # <<>>

(***************************************************************************)
(* C22: the verbosity count                                                *)
(***************************************************************************)
\* how much a level lets through: ERROR least, DEBUG most
Verbosity(level) == CHOOSE i \in 1 .. Len(LevelList) : LevelList[i] = level

\* both invocations have configured logging
BothConfigured == \A r \in Invocations : log_level[r].status # "unset"

\* C22: for every count v >= 0 of -v flags a level is selected without
\* error; of two invocations the one with more flags is at least as
\* verbose, for the root logger and for the logger of the script; every
\* v >= 3 selects the debug level.
C22_VerbosityMapping ==
    \A r \in Invocations, q \in Invocations :
        (log_level[r].status # "unset" /\ log_level[q].status # "unset") =>
            /\ log_level[r].status = "ok"
            /\ log_level[q].status = "ok"
            /\ verbose[r] <= verbose[q] =>
                  /\ Verbosity(log_level[r].root)
                        <= Verbosity(log_level[q].root)
                  /\ Verbosity(log_level[r].logger)
                        <= Verbosity(log_level[q].logger)
            /\ verbose[r] >= 3 =>
                  /\ log_level[r].root = "DEBUG"
                  /\ log_level[r].logger = "DEBUG"

\* C22, for flconnect.py alone
C22_FlconnectVerbosityMapping ==
    script = "flconnect" => C22_VerbosityMapping

\* C22, the level of the root logger in fieldline_lsl_new.py
C22_NewScriptRootLevel ==
    script = "fieldline_lsl_new" =>
        \A r \in Invocations, q \in Invocations :
            (log_level[r].status # "unset" /\ log_level[q].status # "unset")
            => /\ log_level[r].status = "ok"
               /\ verbose[r] <= verbose[q] =>
                     Verbosity(log_level[r].root)
                        <= Verbosity(log_level[q].root)
               /\ verbose[r] >= 3 => log_level[r].root = "DEBUG"

\* C22, lslmain.py up to three flags
C22_LslmainUpToThree ==
    (script = "lslmain" /\ \A r \in Invocations : verbose[r] <= 3)
        => C22_VerbosityMapping

C22_Witness ==
    /\ script = "flconnect"
    /\ BothConfigured
    /\ verbose[1] = 2
    /\ verbose[2] = MaxVerbose

(***************************************************************************)
(* FieldLineLSL.init_sensors (FieldLineLSL.py), statement by statement:    *)
(* the asynchronous operations restart, coarse zeroing and fine zeroing,   *)
(* each followed by done.wait() and done.clear(), with the on_completed    *)
(* callback of the service thread setting the done event; then init_adcs   *)
(* and the channel layout.                                                 *)
(***************************************************************************)
\* a list of chassis ids as the adcs argument of init_sensors
AdcsList(l) == [is_list |-> TRUE, bool |-> FALSE, list |-> l]

\* chassis ids an adcs list may name: the chassis and one unknown id
ListedIds == Chassis \cup {NumChassis}

\* the adcs arguments: False, True, and the lists of up to two ids
AdcsArgChoices ==
    {AdcsBool(FALSE), AdcsBool(TRUE), AdcsList(<<>>)}
        \cup {AdcsList(<<a>>) : a \in ListedIds}
        \cup {AdcsList(<<a, b>>) : a \in ListedIds, b \in ListedIds}

\* the chassis get_chassis_desc_dicts() reports: all, or the first only
ConnectedChoices == {Chassis, {0}}

\* chassis_list of init_adcs: the ids in the order of
\* get_chassis_desc_dicts(), which sorts by chassis_id
ChassisIdList(chassis) ==
    CHOOSE l \in [1 .. Cardinality(chassis) -> chassis] :
        \A i \in 1 .. Cardinality(chassis), j \in 1 .. Cardinality(chassis) :
            i < j => l[i] < l[j]

\* an init_adcs that starts every listed chassis, connected or not
start_adc_on_chassis_Unfiltered(adcs, chassis) ==
    IF ~adcs.is_list
       THEN IF adcs.bool
               THEN ChassisIdList(chassis)
               ELSE <<>>
       ELSE adcs.list

\* init_adcs: start_adc_on_chassis, a list
start_adc_on_chassis(adcs, chassis) ==
    IF ~adcs.is_list
       THEN IF adcs.bool
               THEN ChassisIdList(chassis)
               ELSE <<>>
       ELSE SelectSeq(adcs.list, LAMBDA id : id \in chassis)

\* init_adcs: stop_adc_on_chassis = set(chassis_list) - set(start_adc_on_chassis)
stop_adc_on_chassis(adcs, chassis) ==
    chassis \ {start_adc_on_chassis(adcs, chassis)[i] :
                  i \in 1 .. Len(start_adc_on_chassis(adcs, chassis))}

\* an operation is issued: it is recorded with the state of the done event
\* and the operations whose on_completed is outstanding
InitIssue(op) ==
    issued' = Append(issued,
                     [op |-> op, done |-> done_event, outstanding |-> awaiting])

\* what a step of the main thread leaves alone
InitFrame ==
    UNCHANGED <<seqvars, scriptvars, running, stream_outlet, data_callback,
                data_queue, streaming_thread, first_lsl_timestamp,
                first_chassis_timestamp, main_pc, local_clock, hw_tick,
                pushed, delivered, n_started, unit_T, hw_channels,
                channel_count, stream_info, timed_out, flowvars, logvars,
                workervars, stampvars, skip_restart, skip_zeroing, adcs_arg,
                connected>>

\* an asynchronous operation of the service is called with on_completed
IssueAsync(op, from, to, skipped, skipto) ==
    /\ init_pc = from
    /\ IF skipped
          THEN /\ init_pc' = skipto
               /\ UNCHANGED <<issued, awaiting>>
          ELSE /\ InitIssue(op)
               /\ awaiting' = awaiting \cup {op}
               /\ init_pc' = to
    /\ UNCHANGED <<done_event, adc_started, adc_stopped, adc_on,
                   channel_names, calibration_dict>>
    /\ InitFrame

\* a wait that returns whether or not the event is set
WaitDone_NoBlock(from, to) ==
    /\ init_pc = from
    /\ init_pc' = to
    /\ UNCHANGED <<done_event, issued, awaiting, adc_started, adc_stopped,
                   adc_on, channel_names, calibration_dict>>
    /\ InitFrame

\* self.done.wait(): returns once the event is set
WaitDone(from, to) ==
    /\ init_pc = from
    /\ done_event
    /\ init_pc' = to
    /\ UNCHANGED <<done_event, issued, awaiting, adc_started, adc_stopped,
                   adc_on, channel_names, calibration_dict>>
    /\ InitFrame

\* self.done.clear()
ClearDone(from, to) ==
    /\ init_pc = from
    /\ done_event' = FALSE
    /\ init_pc' = to
    /\ UNCHANGED <<issued, awaiting, adc_started, adc_stopped, adc_on,
                   channel_names, calibration_dict>>
    /\ InitFrame

\* restart_sensors: super().restart_sensors(..., on_completed=...)
restart_sensors_call ==
    IssueAsync("restart", "restart", "restart_wait", skip_restart,
               "closed_loop")

restart_sensors_wait == WaitDone("restart_wait", "restart_clear")

restart_sensors_clear == ClearDone("restart_clear", "closed_loop")

\* self.set_closed_loop(closed_loop_mode), a blocking call of the service
set_closed_loop ==
    /\ init_pc = "closed_loop"
    /\ InitIssue("set_closed_loop")
    /\ init_pc' = "coarse_zero"
    /\ UNCHANGED <<done_event, awaiting, adc_started, adc_stopped, adc_on,
                   channel_names, calibration_dict>>
    /\ InitFrame

\* zero_sensors: self.coarse_zero_sensors(..., on_completed=...)
coarse_zero_call ==
    IssueAsync("coarse_zero", "coarse_zero", "coarse_wait", skip_zeroing,
               "adcs")

coarse_zero_wait == WaitDone("coarse_wait", "coarse_clear")

coarse_zero_clear == ClearDone("coarse_clear", "fine_zero")

\* zero_sensors: self.fine_zero_sensors(..., on_completed=...)
fine_zero_call ==
    IssueAsync("fine_zero", "fine_zero", "fine_wait", FALSE, "adcs")

fine_zero_wait == WaitDone("fine_wait", "fine_clear")

fine_zero_clear == ClearDone("fine_clear", "adcs")

\* self.init_adcs(adcs): start_adc on the chassis of start_adc_on_chassis,
\* stop_adc on the others
init_adcs_call ==
    /\ init_pc = "adcs"
    /\ InitIssue("adcs")
    /\ adc_started' = start_adc_on_chassis(adcs_arg, connected)
    /\ adc_stopped' = stop_adc_on_chassis(adcs_arg, connected)
    /\ adc_on' = connected \ stop_adc_on_chassis(adcs_arg, connected)
    /\ init_pc' = "layout"
    /\ UNCHANGED <<done_event, awaiting, channel_names, calibration_dict>>
    /\ InitFrame

\* self._build_channel_names(); self._set_calibration_dict()
init_sensors_layout ==
    /\ init_pc = "layout"
    /\ channel_names' = NamesOf(hw_channels)
    /\ calibration_dict' = CalibrationDictOf(hw_channels)
    /\ init_pc' = "returned"
    /\ UNCHANGED <<done_event, issued, awaiting, adc_started, adc_stopped,
                   adc_on>>
    /\ InitFrame

\* callback_completed, on the thread of the service: the on_completed of
\* an operation fires, once
callback_completed(op) ==
    /\ op \in awaiting
    /\ awaiting' = awaiting \ {op}
    /\ done_event' = TRUE
    /\ UNCHANGED <<init_pc, issued, adc_started, adc_stopped, adc_on,
                   channel_names, calibration_dict>>
    /\ InitFrame

InitSensorsInit ==
    /\ expected_sensors = NoneVal
    /\ disable_restart = FALSE
    /\ skip_init = FALSE
    /\ excluded_sensors = {}
    /\ sensors_available = EmptySets
    /\ sensors_selected = EmptySets
    /\ sensors_restarted = EmptySets
    /\ sensors_coarse_zeroed = EmptySets
    /\ sensors_fine_zeroed = EmptySets
    /\ service_running = TRUE
    /\ pc = "relay"
    /\ batch = EmptySets
    /\ exit_reason = "none"
    /\ hw_avail = {}
    /\ restart_inflight = {}
    /\ coarse_inflight = {}
    /\ fine_inflight = {}
    /\ n_restart = [p \in Sensors |-> 0]
    /\ n_coarse = [p \in Sensors |-> 0]
    /\ n_fine = [p \in Sensors |-> 0]
    /\ turned_off = {}
    /\ seen = {}
    /\ ever_restarted = {}
    /\ ever_coarse_done = {}
    /\ ever_fine_done = {}
    /\ script = "FieldLineLSL"
    /\ init_timeout = NoTimeout
    /\ now = 0
    /\ exit_code = NoExit
    /\ data_started = FALSE
    /\ RelayConstructed
    /\ unit_T = "fT"
    /\ hw_channels = OpmChannels
    /\ adc_on = {}
    /\ FlowNotStarted
    /\ LoggingNotConfigured
    /\ WorkersNotStarted
    /\ skip_restart \in BOOLEAN
    /\ skip_zeroing \in BOOLEAN
    /\ adcs_arg \in AdcsArgChoices
    /\ connected \in ConnectedChoices
    /\ done_event = FALSE
    /\ init_pc = "restart"
    /\ issued = <<>>
    /\ awaiting = {}
    /\ adc_started = <<>>
    /\ adc_stopped = {}

NextInitSensors ==
    \/ restart_sensors_call
    \/ restart_sensors_wait
    \/ restart_sensors_clear
    \/ set_closed_loop
    \/ coarse_zero_call
    \/ coarse_zero_wait
    \/ coarse_zero_clear
    \/ fine_zero_call
    \/ fine_zero_wait
    \/ fine_zero_clear
    \/ init_adcs_call
    \/ init_sensors_layout
    \/ \E op \in {"restart", "coarse_zero", "fine_zero"} :
          callback_completed(op)

SpecInitSensors == InitSensorsInit /\ [][NextInitSensors]_vars


\* the steps of init_sensors when nothing is skipped
InitOrder == <<"restart", "set_closed_loop", "coarse_zero", "fine_zero", "adcs">>

\* init_sensors was called with skip_restart=False and skip_zeroing=False
NothingSkipped == init_pc # "none" /\ ~skip_restart /\ ~skip_zeroing

\* C23: with skip_restart=False and skip_zeroing=False, init_sensors issues
\* restart, set-closed-loop, coarse zeroing, fine zeroing and the ADC
\* start/stop in this order; at every issue the done event is clear and the
\* on_completed of every asynchronous step issued before has fired
C23_StepsInOrderAfterCompletion ==
    NothingSkipped =>
        /\ Len(issued) <= Len(InitOrder)
        /\ \A i \in 1 .. Len(issued) :
              /\ issued[i].op = InitOrder[i]
              /\ issued[i].done = FALSE
              /\ issued[i].outstanding = {}

\* all five steps were issued and init_sensors has returned
C23_Witness ==
    /\ NothingSkipped
    /\ init_pc = "returned"
    /\ Len(issued) = Len(InitOrder)
    /\ awaiting = {}

\* on_completed has fired while the main thread has not yet run done.wait()
C23_CallbackBeforeWait ==
    /\ NothingSkipped
    /\ init_pc \in {"restart_wait", "coarse_wait", "fine_wait"}
    /\ done_event

\* the chassis ids of a list, as a set
ListedSet(l) == {l[i] : i \in 1 .. Len(l)}

\* the number of start_adc and stop_adc calls a chassis has received
AdcCallsOn(c) ==
    Cardinality({i \in 1 .. Len(adc_started) : adc_started[i] = c})
        + (IF c \in adc_stopped THEN 1 ELSE 0)

\* the chassis the adcs argument asks to start, among the connected ones
AdcsAskedFor ==
    IF adcs_arg.is_list
       THEN ListedSet(adcs_arg.list) \cap connected
       ELSE IF adcs_arg.bool THEN connected ELSE {}

\* init_adcs has run
InitAdcsDone == init_pc \in {"layout", "returned"}

\* no id occurs twice in the adcs list
DistinctIds ==
    \A i \in 1 .. Len(adcs_arg.list), j \in 1 .. Len(adcs_arg.list) :
        adcs_arg.list[i] = adcs_arg.list[j] => i = j

\* C27 as stated: init_adcs starts the ADCs of the chassis asked for and
\* connected, stops those of all other connected chassis, every connected
\* chassis receives exactly one of start and stop, and the returned list is
\* the started set
C27_AdcPartition ==
    InitAdcsDone =>
        /\ ListedSet(adc_started) = AdcsAskedFor
        /\ adc_stopped = connected \ AdcsAskedFor
        /\ \A c \in connected : AdcCallsOn(c) = 1
        /\ Len(adc_started) = Cardinality(AdcsAskedFor)

\* C27, amended: the chassis started and the chassis stopped partition the
\* connected chassis as stated and the returned list holds the started
\* chassis; a chassis receives exactly one call, and the returned list has
\* no repetition, when no id occurs twice in the adcs list
C27_AdcPartitionOfDistinctIds ==
    InitAdcsDone =>
        /\ ListedSet(adc_started) = AdcsAskedFor
        /\ adc_stopped = connected \ AdcsAskedFor
        /\ adc_on = AdcsAskedFor
        /\ \A c \in connected : AdcCallsOn(c) >= 1
        /\ DistinctIds =>
              /\ \A c \in connected : AdcCallsOn(c) = 1
              /\ Len(adc_started) = Cardinality(AdcsAskedFor)

\* init_adcs has run on a list naming a connected and an unknown chassis,
\* while another chassis is connected
C27_Witness ==
    /\ InitAdcsDone
    /\ adcs_arg.is_list
    /\ DistinctIds
    /\ ListedSet(adcs_arg.list) \cap connected # {}
    /\ ListedSet(adcs_arg.list) \ connected # {}
    /\ adc_stopped # {}

\* init_adcs has run on a list that names a connected chassis twice
C27_RepeatedId ==
    /\ InitAdcsDone
    /\ adcs_arg.is_list
    /\ ~DistinctIds
    /\ \E c \in connected : AdcCallsOn(c) = 2

(***************************************************************************)
(* init_sensors of fieldline_lsl_new.py run with sensors on the list       *)
(* excluded_sensors                                                        *)
(***************************************************************************)
\* the non-empty lists excluded_sensors may hold: one sensor, or the first
\* sensor of every chassis
ExcludedChoices ==
    {{p} : p \in Sensors} \cup {{p \in Sensors : p[2] = 1}}

InitExclude ==
    /\ expected_sensors \in {NoneVal, Sensors}
    /\ disable_restart \in BOOLEAN
    /\ skip_init = FALSE
    /\ excluded_sensors \in ExcludedChoices
    /\ sensors_available = EmptySets
    /\ sensors_selected = EmptySets
    /\ sensors_restarted = EmptySets
    /\ sensors_coarse_zeroed = EmptySets
    /\ sensors_fine_zeroed = EmptySets
    /\ service_running = TRUE
    /\ pc = "head"
    /\ batch = EmptySets
    /\ exit_reason = "none"
    /\ hw_avail = Chassis
    /\ restart_inflight = {}
    /\ coarse_inflight = {}
    /\ fine_inflight = {}
    /\ n_restart = [p \in Sensors |-> 0]
    /\ n_coarse = [p \in Sensors |-> 0]
    /\ n_fine = [p \in Sensors |-> 0]
    /\ turned_off = {}
    /\ seen = {}
    /\ ever_restarted = {}
    /\ ever_coarse_done = {}
    /\ ever_fine_done = {}
    /\ script = "fieldline_lsl_new"
    /\ init_timeout = NoTimeout
    /\ now = 0
    /\ exit_code = NoExit
    /\ data_started = FALSE
    /\ RelayConstructed
    /\ unit_T = "fT"
    /\ hw_channels = OpmChannels
    /\ adc_on = {}
    /\ RunNotStarted

SpecExclude == InitExclude /\ [][Next]_vars

C24_ExclusionListIgnored ==
    \A p \in seen :
        /\ p[2] \in sensors_selected[p[1]]
              <=> (expected_sensors = NoneVal \/ p \in expected_sensors)
        /\ p \in turned_off
              <=> ~(expected_sensors = NoneVal \/ p \in expected_sensors)

\* a sensor on the list excluded_sensors has been selected and fine-zeroed
C24_ExcludedFineZeroed ==
    \E p \in excluded_sensors :
        /\ p[2] \in sensors_selected[p[1]]
        /\ n_restart[p] > 0
        /\ p \in ever_fine_done

\* the outlets fieldline_lsl_new.py has constructed, with the positions of
\* the channels of data type t
OutletChannels(t) ==
    UNION {{<<k, i>> : i \in {j \in 1 .. Len(outlets[k].sample) :
                                 /\ script = "fieldline_lsl_new"
                                 /\ outlets[k].sample[j].data_type \in t}} :
           k \in 1 .. Len(outlets)}

\* C25: for a magnetometer channel (type 28 or 50) the scaling factor of
\* getStreamInfo is the calibration value times the multiplier of the unit
\* the descriptor declares for the channel (fT: 1e15); for an ADC channel
\* (type 0) it is the calibration value itself, with unit 'V'
C25_ScalingMatchesDeclaredUnit ==
    /\ \A o \in OutletChannels({"28", "50"}) :
          LET ch == outlets[o[1]].sample[o[2]]
              d == outlets[o[1]].info.channels[o[2]]
          IN  /\ d.unit = "fT"
              /\ d.scaling_factor = Num(ch.calibration, Unit_T_Factor[d.unit])
    /\ \A o \in OutletChannels({"0"}) :
          LET ch == outlets[o[1]].sample[o[2]]
              d == outlets[o[1]].info.channels[o[2]]
          IN  /\ d.unit = "V"
              /\ d.scaling_factor = Num(ch.calibration, 0)

\* what the code does: a magnetometer channel is declared in fT and scaled
\* by 1e12, the multiplier of pT; an ADC channel is declared in V and keeps
\* its calibration value
C25_DeclaredFemtoScaledPico ==
    /\ \A o \in OutletChannels({"28", "50"}) :
          LET ch == outlets[o[1]].sample[o[2]]
              d == outlets[o[1]].info.channels[o[2]]
          IN  /\ d.unit = "fT"
              /\ d.scaling_factor = Num(ch.calibration, Unit_T_Factor.pT)
    /\ \A o \in OutletChannels({"0"}) :
          LET ch == outlets[o[1]].sample[o[2]]
              d == outlets[o[1]].info.channels[o[2]]
          IN  /\ d.unit = "V"
              /\ d.scaling_factor = Num(ch.calibration, 0)

\* an outlet was built from a frame with magnetometer and ADC channels
C25_Witness ==
    /\ OutletChannels({"28", "50"}) # {}
    /\ OutletChannels({"0"}) # {}

\* the chunk push_flchunk has pushed last, when its frame holds the
\* channels of the structure sample, in whatever order
SameKeySetChunks ==
    {k \in 1 .. Len(chunks) :
        /\ script = "fieldline_lsl_new"
        /\ Len(chunks[k].data_frames) = Len(outlets[1].sample)
        /\ {chunks[k].data_frames[i] : i \in 1 .. Len(chunks[k].data_frames)}
              = {outlets[1].sample[i] : i \in 1 .. Len(outlets[1].sample)}}

\* the factor getStreamInfo computed for a channel of the structure sample
FactorOf(channel) ==
    outlets[1].info.channels[
        CHOOSE i \in 1 .. Len(outlets[1].sample) :
            outlets[1].sample[i] = channel].scaling_factor

\* C26: for every pushed frame with the key set of the structure sample,
\* position i of the chunk is the reading of channel i of the fixed layout
\* times the scaling factor computed for that channel, whatever the order
\* of the keys of the frame
C26_ChunkFollowsFixedLayout ==
    \A k \in SameKeySetChunks :
        \A i \in 1 .. Len(outlets[1].sample) :
            chunks[k].x[i] =
                Times(Reading(outlets[1].sample[i]),
                      FactorOf(outlets[1].sample[i]))

\* what the code does: position i of the chunk is the reading at position i
\* of the frame times the factor at position i of the layout; the chunk
\* follows the fixed layout for the frames whose keys are in its order
C26_ChunkIsPositional ==
    \A k \in SameKeySetChunks :
        /\ \A i \in 1 .. Len(outlets[1].sample) :
              chunks[k].x[i] =
                  Times(Reading(chunks[k].data_frames[i]),
                        outlets[1].info.channels[i].scaling_factor)
        /\ chunks[k].data_frames = outlets[1].sample =>
              \A i \in 1 .. Len(outlets[1].sample) :
                  chunks[k].x[i] =
                      Times(Reading(outlets[1].sample[i]),
                            FactorOf(outlets[1].sample[i]))

\* a frame with the keys of the structure sample in another order was pushed
C26_ReorderedFramePushed ==
    \E k \in SameKeySetChunks : chunks[k].data_frames # outlets[1].sample

\* a frame with the keys in the order of the structure sample was pushed
C26_Witness ==
    \E k \in SameKeySetChunks : chunks[k].data_frames = outlets[1].sample

(***************************************************************************)
(* C28: what the return of init_sensors means                              *)
(***************************************************************************)
\* the selected sensors whose fine-zero-complete has not been received
SelectedNotFineZeroed == PairsOf(sensors_selected) \ ever_fine_done

C28_ReturnAfterAnyLoopEnd ==
    pc = "returned" =>
        /\ exit_reason \in {"skip_init", "fine_zeroed", "service_stopped"}
        /\ exit_reason = "fine_zeroed" => SelectedNotFineZeroed = {}
        /\ exit_reason = "service_stopped" => ~service_running

\* init_sensors has returned after the service stopped, with a selected
\* sensor that was restarted and not fine-zeroed
C28_ReturnedUninitialized ==
    /\ pc = "returned"
    /\ ~skip_init
    /\ exit_reason = "service_stopped"
    /\ SelectedNotFineZeroed \cap ever_restarted # {}

(***************************************************************************)
(* The initialization loops of flconnect.py and of main.py.  Their         *)
(* connector (fieldline_connector) is not among the sources; it is the     *)
(* connector modelled above, with set_all_sensors_valid() making every     *)
(* ready sensor valid.  Both scripts call fService.start_data() before the *)
(* loop.  The stage branches of the if / elif chain are those of           *)
(* lsl/lslmain.py run without an allow-list.                               *)
(***************************************************************************)
\* main.py: streaming_duration = 10, in seconds
streaming_duration == 10

\* the scripts whose loop this is
FlconnectScripts == {"flconnect", "main"}

\* flconnect.py: while fService.is_service_running() and not
\* all_sensors_calibrated: if fConnector.num_valid_sensors() == 0: break
\* main.py: while fService.is_service_running():
flconnect_loop_head ==
    /\ pc = "loop_head"
    /\ script \in FlconnectScripts
    /\ IF ~service_running
          THEN /\ pc' = IF script = "flconnect" THEN "init_complete"
                                                ELSE "main_stop"
               /\ exit_reason' = "service_stopped"
          ELSE IF script = "flconnect" /\ num_valid_sensors = 0
                  THEN /\ pc' = "init_complete"
                       /\ exit_reason' = "no_valid_sensors"
                  ELSE /\ pc' = "loop_branch"
                       /\ UNCHANGED exit_reason
    /\ UNCHANGED <<cfgvars, connvars, service_running, batch, hwvars, histvars,
                   scriptvars>>
    /\ UNCHANGED <<relayvars, runvars>>

\* elif has_fine_zero_sensors() and num_valid_sensors() == get_num_fine_zero_sensors():
\* flconnect.py sets all_sensors_calibrated, which ends its loop; main.py
\* goes on
flconnect_fine_done ==
    /\ pc = "loop_branch"
    /\ script \in FlconnectScripts
    /\ ~CondReady /\ ~CondRestarted /\ ~CondCoarseZeroed /\ CondFineZeroed
    /\ batch' = sensors_fine_zeroed
    /\ sensors_fine_zeroed' = EmptySets
    /\ IF script = "flconnect"
          THEN pc' = "init_complete" /\ exit_reason' = "fine_zeroed"
          ELSE pc' = "loop_tail" /\ UNCHANGED exit_reason
    /\ UNCHANGED <<cfgvars, sensors_available, sensors_selected,
                   sensors_restarted, sensors_coarse_zeroed, service_running,
                   hwvars, histvars, scriptvars>>
    /\ UNCHANGED <<relayvars, runvars>>

\* the end of an iteration.  main.py takes a frame from the queue and
\* leaves the loop once streaming_duration has passed since the first
\* frame, which is taken at the start of the loop at the earliest
flconnect_loop_tail ==
    /\ pc = "loop_tail"
    /\ script \in FlconnectScripts
    /\ IF script = "main" /\ now > streaming_duration
          THEN pc' = "main_stop" /\ exit_reason' = "duration"
          ELSE pc' = "loop_head" /\ UNCHANGED exit_reason
    /\ UNCHANGED <<cfgvars, connvars, service_running, batch, hwvars, histvars,
                   scriptvars>>
    /\ UNCHANGED <<relayvars, runvars>>

\* main.py, after the loop: fService.stop_data()
main_stop_data ==
    /\ pc = "main_stop"
    /\ pc' = "stopped"
    /\ data_started' = FALSE
    /\ UNCHANGED <<cfgvars, connvars, service_running, batch, exit_reason,
                   hwvars, histvars, script, init_timeout, now, exit_code>>
    /\ UNCHANGED <<relayvars, runvars>>

\* signal_handler of flconnect.py and of main.py, on SIGINT: fService.stop()
flconnect_signal_handler ==
    /\ script \in FlconnectScripts
    /\ pc \in {"loop_head", "loop_branch", "loop_tail"}
    /\ service_running
    /\ service_running' = FALSE
    /\ UNCHANGED <<cfgvars, connvars, pc, batch, exit_reason, hwvars, histvars,
                   scriptvars>>
    /\ UNCHANGED <<relayvars, runvars>>

InitFlconnect ==
    /\ script \in FlconnectScripts
    /\ expected_sensors = NoneVal
    /\ disable_restart = FALSE
    /\ skip_init = FALSE
    /\ excluded_sensors = {}
    /\ init_timeout = NoTimeout
    /\ sensors_available = EmptySets
    /\ sensors_selected = EmptySets
    /\ sensors_restarted = EmptySets
    /\ sensors_coarse_zeroed = EmptySets
    /\ sensors_fine_zeroed = EmptySets
    /\ service_running = TRUE
    /\ pc = "loop_head"
    /\ batch = EmptySets
    /\ exit_reason = "none"
    /\ hw_avail = Chassis
    /\ restart_inflight = {}
    /\ coarse_inflight = {}
    /\ fine_inflight = {}
    /\ n_restart = [p \in Sensors |-> 0]
    /\ n_coarse = [p \in Sensors |-> 0]
    /\ n_fine = [p \in Sensors |-> 0]
    /\ turned_off = {}
    /\ seen = {}
    /\ ever_restarted = {}
    /\ ever_coarse_done = {}
    /\ ever_fine_done = {}
    /\ now = 0
    /\ exit_code = NoExit
    /\ data_started = TRUE
    /\ RelayConstructed
    /\ unit_T = "fT"
    /\ hw_channels = OpmChannels
    /\ adc_on = {}
    /\ RunNotStarted

NextFlconnect ==
    \/ flconnect_loop_head
    \/ ScriptReady
    \/ ScriptCoarseZero
    \/ ScriptFineZero
    \/ flconnect_fine_done
    \/ ScriptNoBranch
    \/ flconnect_loop_tail
    \/ ScriptStartData
    \/ main_stop_data
    \/ flconnect_signal_handler
    \/ ConnectorCallback
    \/ Tick

SpecFlconnect == InitFlconnect /\ [][NextFlconnect]_vars

(***************************************************************************)
(* C29: the initialization loop of flconnect.py                            *)
(***************************************************************************)
\* the loop of flconnect.py is left: 'Initialization finished'
FlconnectInitFinished ==
    script = "flconnect" /\ pc \in {"init_complete", "streaming"}

\* C29: flconnect.py restarts every sensor that it has taken as ready; it
\* reaches 'Initialization finished' only with as many fine-zeroed as
\* valid sensors; and, the chassis being about to report their sensors, it
\* does not leave the loop before a sensor was restarted
C29_FlconnectInitializesSensors ==
    /\ script = "flconnect" => \A p \in seen : n_restart[p] >= 1
    /\ FlconnectInitFinished =>
          Cardinality(ever_fine_done) = num_valid_sensors
    /\ FlconnectInitFinished => \E p \in Sensors : n_restart[p] >= 1

\* what the code does: no sensor is valid before the loop has set one
\* valid, so the first iteration leaves the loop; flconnect.py never takes
\* a ready sensor, never restarts or zeroes one, and goes on to stream
C29_FlconnectLeavesLoopAtOnce ==
    script = "flconnect" =>
        /\ pc \in {"loop_head", "init_complete", "streaming"}
        /\ seen = {}
        /\ num_valid_sensors = 0
        /\ \A p \in Sensors :
              n_restart[p] = 0 /\ n_coarse[p] = 0 /\ n_fine[p] = 0
        /\ pc # "loop_head" =>
              exit_reason \in {"no_valid_sensors", "service_stopped"}

\* flconnect.py streams while the sensors of every chassis are ready and
\* none was restarted
C29_StreamingUninitialized ==
    /\ script = "flconnect"
    /\ pc = "streaming"
    /\ exit_reason = "no_valid_sensors"
    /\ \A c \in Chassis : sensors_available[c] = SensorIds

\* the same loop without the test of num_valid_sensors(), in main.py: the
\* sensors are taken, restarted and zeroed
C29_MainInitializesSensors ==
    /\ script = "main"
    /\ seen = Sensors
    /\ ever_fine_done = Sensors

(***************************************************************************)
(* C30: an empty list of expected sensors                                  *)
(***************************************************************************)
\* the main thread of lsl/lslmain.py and start_lsl_stream.py keeps running
FairSpecLoop == SpecLoop /\ WF_vars(ScriptStep)

\* no restart, coarse-zero or fine-zero operation was issued
NoInitOperation ==
    \A p \in Sensors : n_restart[p] = 0 /\ n_coarse[p] = 0 /\ n_fine[p] = 0

C30_NewScriptKeepsPolling ==
    expected_sensors = {} =>
        /\ NoInitOperation
        /\ seen \subseteq turned_off
        /\ pc = "returned" => exit_reason \in {"skip_init", "service_stopped"}

\* C30, for lsl/lslmain.py and start_lsl_stream.py: with an empty list no
\* operation is issued, the first iteration leaves the loop and the script
\* goes on to start the data stream
C30_ScriptsSkipInitialization ==
    /\ [](expected_sensors = {} => NoInitOperation)
    /\ [][(expected_sensors = {} /\ pc = "loop_tail")
             => pc' \in {"loop_tail", "init_complete"}]_vars
    /\ (expected_sensors = {}) ~> (pc = "streaming" /\ data_started)

\* lsl/lslmain.py or start_lsl_stream.py streams after an empty list ended
\* the loop, the sensors of a chassis turned off
C30_WitnessScripts ==
    /\ expected_sensors = {}
    /\ pc = "streaming"
    /\ exit_reason = "none_expected"
    /\ turned_off # {}

(***************************************************************************)
(* C31, C32: the completion sets and the pop operations                    *)
(***************************************************************************)
\* C31: over a run of init_sensors restart, coarse zeroing and fine zeroing
\* are each issued at most once for a sensor, and only for a selected one
C31_EachStageIssuedOnce ==
    \A p \in Sensors :
        /\ n_restart[p] <= 1
        /\ n_coarse[p] <= 1
        /\ n_fine[p] <= 1
        /\ n_restart[p] + n_coarse[p] + n_fine[p] > 0
              => p[2] \in sensors_selected[p[1]]

\* C31: the set that triggered a stage transition is empty when the
\* operation of the next stage is issued
C31_SetEmptiedBeforeIssue ==
    /\ pc = "issue_coarse" => sensors_restarted = EmptySets
    /\ pc = "issue_fine" => sensors_coarse_zeroed = EmptySets

\* every sensor of two chassis went through the three stages, once each
C31_Witness ==
    /\ \A p \in Sensors :
          n_restart[p] = 1 /\ n_coarse[p] = 1 /\ n_fine[p] = 1
    /\ pc = "returned"

\* C31: each stage operation is issued at most once per selected sensor and
\* the set that triggered a transition is emptied before the next issue
C31_OncePerSensor ==
    C31_EachStageIssuedOnce /\ C31_SetEmptiedBeforeIssue

\* the completion events are still in the connector's set, in the batch
\* about to be passed on, or were passed to the operation of the next stage
RestartEventsKept ==
    \A p \in ever_restarted :
        \/ p[2] \in sensors_restarted[p[1]]
        \/ pc = "issue_coarse" /\ p[2] \in batch[p[1]]
        \/ n_coarse[p] > 0

CoarseEventsKept ==
    \A p \in ever_coarse_done :
        \/ p[2] \in sensors_coarse_zeroed[p[1]]
        \/ pc = "issue_fine" /\ p[2] \in batch[p[1]]
        \/ n_fine[p] > 0

\* between the comparison and the pop the compared set does not change, the
\* pop hands over exactly that set, and the batch is not changed before the
\* operation is issued with it
BatchIsComparedSet ==
    /\ pc = "pop_restarted" =>
          \/ sensors_restarted' = sensors_restarted /\ pc' = pc
          \/ batch' = sensors_restarted /\ pc' = "issue_coarse"
    /\ pc = "pop_coarse" =>
          \/ sensors_coarse_zeroed' = sensors_coarse_zeroed /\ pc' = pc
          \/ batch' = sensors_coarse_zeroed /\ pc' = "issue_fine"
    /\ pc = "issue_coarse" =>
          \/ batch' = batch /\ pc' = pc
          \/ coarse_inflight' = coarse_inflight \cup PairsOf(batch)
    /\ pc = "issue_fine" =>
          \/ batch' = batch /\ pc' = pc
          \/ fine_inflight' = fine_inflight \cup PairsOf(batch)

C32_NoCallbackInsideWindow ==
    /\ pc = "pop_restarted" => restart_inflight = {}
    /\ pc = "pop_coarse" => coarse_inflight = {}

(***************************************************************************)
(* The threads of FieldLineLSL: start_streaming, stop_streaming and close  *)
(* called in any order, every thread that was started, the callback of the *)
(* hardware service and the streaming threads statement by statement       *)
(***************************************************************************)
\* self.streaming_thread: the thread started last, 0 for None
ThreadHandle == Len(workers)

\* the positions at which a thread is inside the loop of thread_stream_data
\* with the queue in use: about to call get(), or with a frame taken
Draining(i) == workers[i].pc \in {"get", "build"}

Ended(i) == i \in DOMAIN workers /\ workers[i].pc \in {"finished", "crashed"}

\* what the steps of the threads leave alone
ThreadsFrame ==
    UNCHANGED <<seqvars, scriptvars, flowvars, logvars, initvars, stampvars,
                streaming_thread, local_clock, unit_T, hw_channels, adc_on,
                channel_names, calibration_dict>>

\* a callback that queues the frame without looking at the anchor pair
callback_enter_NoAnchor(tick, data_frames) ==
    /\ data_callback
    /\ cb_data = <<>>
    /\ Len(delivered) < MaxFrames
    /\ tick \in {hw_tick + d : d \in TickSteps}
    /\ hw_tick' = tick
    /\ delivered' = Append(delivered, [tick |-> tick, at |-> local_clock])
    /\ cb_data' = <<[step |-> "put",
                     timestamp |-> tick,
                     data_frames |-> data_frames,
                     n |-> Len(delivered) + 1]>>
    /\ UNCHANGED <<running, stream_outlet, data_callback, data_queue,
                   first_lsl_timestamp, first_chassis_timestamp, main_pc,
                   pushed, n_started, channel_count, stream_info, timed_out,
                   workers, warned>>
    /\ ThreadsFrame

\* the hardware service calls callback_data_available(data):
\* if self.first_lsl_timestamp is None
callback_enter(tick, data_frames) ==
    /\ data_callback
    /\ cb_data = <<>>
    /\ Len(delivered) < MaxFrames
    /\ tick \in {hw_tick + d : d \in TickSteps}
    /\ hw_tick' = tick
    /\ delivered' = Append(delivered, [tick |-> tick, at |-> local_clock])
    /\ cb_data' = <<[step |-> IF first_lsl_timestamp = NoneTs
                                 THEN "first_lsl" ELSE "put",
                     timestamp |-> tick,
                     data_frames |-> data_frames,
                     n |-> Len(delivered) + 1]>>
    /\ UNCHANGED <<running, stream_outlet, data_callback, data_queue,
                   first_lsl_timestamp, first_chassis_timestamp, main_pc,
                   pushed, n_started, channel_count, stream_info, timed_out,
                   workers, warned>>
    /\ ThreadsFrame

\* self.first_lsl_timestamp = pylsl.local_clock()
callback_first_lsl ==
    /\ cb_data # <<>>
    /\ cb_data[1].step = "first_lsl"
    /\ first_lsl_timestamp' = local_clock
    /\ cb_data' = <<[cb_data[1] EXCEPT !.step = "first_chassis"]>>
    /\ UNCHANGED <<running, stream_outlet, data_callback, data_queue,
                   first_chassis_timestamp, main_pc, hw_tick, pushed,
                   delivered, n_started, channel_count, stream_info,
                   timed_out, workers, warned>>
    /\ ThreadsFrame

\* self.first_chassis_timestamp = data['timestamp']
callback_first_chassis ==
    /\ cb_data # <<>>
    /\ cb_data[1].step = "first_chassis"
    /\ first_chassis_timestamp' = cb_data[1].timestamp
    /\ cb_data' = <<[cb_data[1] EXCEPT !.step = "put"]>>
    /\ UNCHANGED <<running, stream_outlet, data_callback, data_queue,
                   first_lsl_timestamp, main_pc, hw_tick, pushed, delivered,
                   n_started, channel_count, stream_info, timed_out, workers,
                   warned>>
    /\ ThreadsFrame

\* self.data_queue.put(data)
callback_put ==
    /\ cb_data # <<>>
    /\ cb_data[1].step = "put"
    /\ data_queue' = Append(data_queue,
                            [timestamp |-> cb_data[1].timestamp,
                             data_frames |-> cb_data[1].data_frames,
                             n |-> cb_data[1].n])
    /\ cb_data' = <<>>
    /\ UNCHANGED <<running, stream_outlet, data_callback,
                   first_lsl_timestamp, first_chassis_timestamp, main_pc,
                   hw_tick, pushed, delivered, n_started, channel_count,
                   stream_info, timed_out, workers, warned>>
    /\ ThreadsFrame

\* a start_streaming that starts no thread while one is running
start_streaming_call_Guarded ==
    /\ main_pc = "idle"
    /\ n_started < MaxStarts
    /\ n_started' = n_started + 1
    /\ IF running
          THEN UNCHANGED <<channel_count, stream_info, stream_outlet,
                           data_callback, running, workers>>
          ELSE /\ IF stream_outlet = "None"
                     THEN /\ channel_count' = Len(hw_channels)
                          /\ stream_info' =
                                [i \in 1 .. Len(hw_channels) |->
                                    get_channel_desc_dict(hw_channels[i])]
                     ELSE UNCHANGED <<channel_count, stream_info>>
               /\ stream_outlet' = "open"
               /\ data_callback' = TRUE
               /\ running' = TRUE
               /\ workers' = Append(workers, [pc |-> "while", data |-> <<>>])
    /\ UNCHANGED <<data_queue, first_lsl_timestamp, first_chassis_timestamp,
                   main_pc, hw_tick, pushed, delivered, timed_out, cb_data,
                   warned>>
    /\ ThreadsFrame

\* start_streaming, called in any state of the object: init_stream if there
\* is no outlet, read_data(self.callback_data_available), running = True,
\* self.streaming_thread = Thread(...), start().  Nothing tests whether a
\* thread is running: the handle of the earlier thread is overwritten
start_streaming_call ==
    /\ main_pc = "idle"
    /\ n_started < MaxStarts
    /\ n_started' = n_started + 1
    /\ IF stream_outlet = "None"
          THEN /\ channel_count' = Len(hw_channels)
               /\ stream_info' = [i \in 1 .. Len(hw_channels) |->
                                     get_channel_desc_dict(hw_channels[i])]
          ELSE UNCHANGED <<channel_count, stream_info>>
    /\ stream_outlet' = "open"
    /\ data_callback' = TRUE
    /\ running' = TRUE
    /\ workers' = Append(workers, [pc |-> "while", data |-> <<>>])
    /\ UNCHANGED <<data_queue, first_lsl_timestamp, first_chassis_timestamp,
                   main_pc, hw_tick, pushed, delivered, timed_out, cb_data,
                   warned>>
    /\ ThreadsFrame

\* an else branch that goes on to join the thread of the handle
stop_streaming_else_Joins ==
    /\ warned' = TRUE
    /\ main_pc' = "stop_join"
    /\ UNCHANGED <<running, data_callback>>

\* stop_streaming, self.running false:
\* logger.warning("Streaming not running. Nothing to stop.")
stop_streaming_else ==
    /\ warned' = TRUE
    /\ UNCHANGED <<running, data_callback, main_pc>>

\* stop_streaming, called in any state of the object, up to the join
stop_streaming_call ==
    /\ main_pc = "idle"
    /\ IF running
          THEN /\ running' = FALSE
               /\ data_callback' = FALSE
               /\ main_pc' = "stop_join"
               /\ UNCHANGED warned
          ELSE stop_streaming_else
    /\ UNCHANGED <<stream_outlet, data_queue, first_lsl_timestamp,
                   first_chassis_timestamp, hw_tick, pushed, delivered,
                   n_started, channel_count, stream_info, timed_out, workers,
                   cb_data>>
    /\ ThreadsFrame

\* self.streaming_thread.join() returns: the thread of the handle has ended
stop_streaming_joined ==
    /\ main_pc = "stop_join"
    /\ Ended(ThreadHandle)
    /\ main_pc' = "idle"
    /\ UNCHANGED <<running, stream_outlet, data_callback, data_queue,
                   first_lsl_timestamp, first_chassis_timestamp, hw_tick,
                   pushed, delivered, n_started, channel_count, stream_info,
                   timed_out, workers, cb_data, warned>>
    /\ ThreadsFrame

\* close, called in any state of the object, up to the join of the
\* stop_streaming it calls when running
close_call ==
    /\ main_pc = "idle"
    /\ IF running
          THEN /\ running' = FALSE
               /\ data_callback' = FALSE
               /\ main_pc' = "close_join"
               /\ UNCHANGED <<stream_outlet, stream_info>>
          ELSE /\ stream_outlet' = "None"
               /\ stream_info' = NoneList
               /\ main_pc' = "closed"
               /\ UNCHANGED <<running, data_callback>>
    /\ UNCHANGED <<data_queue, first_lsl_timestamp, first_chassis_timestamp,
                   hw_tick, pushed, delivered, n_started, channel_count,
                   timed_out, workers, cb_data, warned>>
    /\ ThreadsFrame

\* close, after the join: self.stream_info = None, self.stream_outlet = None
close_joined ==
    /\ main_pc = "close_join"
    /\ Ended(ThreadHandle)
    /\ stream_outlet' = "None"
    /\ stream_info' = NoneList
    /\ main_pc' = "closed"
    /\ UNCHANGED <<running, data_callback, data_queue, first_lsl_timestamp,
                   first_chassis_timestamp, hw_tick, pushed, delivered,
                   n_started, channel_count, timed_out, workers, cb_data,
                   warned>>
    /\ ThreadsFrame

\* thread_stream_data of thread i: while self.running
worker_while_running(i) ==
    /\ workers[i].pc = "while"
    /\ workers' = [workers EXCEPT
                      ![i].pc = IF running THEN "get" ELSE "finished"]
    /\ UNCHANGED <<running, stream_outlet, data_callback, data_queue,
                   first_lsl_timestamp, first_chassis_timestamp, main_pc,
                   hw_tick, pushed, delivered, n_started, channel_count,
                   stream_info, timed_out, cb_data, warned>>
    /\ ThreadsFrame

\* thread i: data_queue.get(timeout=1) raises Empty; continue
worker_queue_empty(i) ==
    /\ workers[i].pc = "get"
    /\ data_queue = <<>>
    /\ workers' = [workers EXCEPT ![i].pc = "while"]
    /\ timed_out' = TRUE
    /\ UNCHANGED <<running, stream_outlet, data_callback, data_queue,
                   first_lsl_timestamp, first_chassis_timestamp, main_pc,
                   hw_tick, pushed, delivered, n_started, channel_count,
                   stream_info, cb_data, warned>>
    /\ ThreadsFrame

\* thread i: data = self.data_queue.get(block=True, timeout=1) takes the
\* frame at the head of the queue
worker_get(i) ==
    /\ workers[i].pc = "get"
    /\ data_queue # <<>>
    /\ data_queue' = Tail(data_queue)
    /\ workers' = [workers EXCEPT
                      ![i] = [pc |-> "build", data |-> <<Head(data_queue)>>]]
    /\ UNCHANGED <<running, stream_outlet, data_callback,
                   first_lsl_timestamp, first_chassis_timestamp, main_pc,
                   hw_tick, pushed, delivered, n_started, channel_count,
                   stream_info, timed_out, cb_data, warned>>
    /\ ThreadsFrame

\* get_timestamp raises TypeError when a timestamp of the anchor pair is None
get_timestamp_Raises ==
    first_lsl_timestamp = NoneTs \/ first_chassis_timestamp = NoneTs

\* thread i, with the frame it took: the sample is built outside the try
\* block; in the try block get_timestamp, then push_sample.  Only the
\* ValueError of a sample of the wrong length is caught
worker_push(i) ==
    /\ workers[i].pc = "build"
    /\ LET data == workers[i].data[1]
       IN  IF \/ SampleRaises(data.data_frames)
              \/ get_timestamp_Raises
              \/ stream_outlet = "None"
              THEN /\ workers' = [workers EXCEPT
                                     ![i] = [pc |-> "crashed", data |-> <<>>]]
                   /\ UNCHANGED pushed
              ELSE /\ workers' = [workers EXCEPT
                                     ![i] = [pc |-> "while", data |-> <<>>]]
                   /\ IF Len(SampleOf(data.data_frames)) = channel_count
                         THEN pushed' = Append(pushed,
                                  [tick |-> data.timestamp,
                                   ts |-> get_timestamp(data.timestamp),
                                   at |-> local_clock,
                                   sample |-> SampleOf(data.data_frames),
                                   keys |-> NamesOf(data.data_frames),
                                   after_timeout |-> timed_out,
                                   n |-> data.n,
                                   by |-> i])
                         ELSE UNCHANGED pushed
    /\ UNCHANGED <<running, stream_outlet, data_callback, data_queue,
                   first_lsl_timestamp, first_chassis_timestamp, main_pc,
                   hw_tick, delivered, n_started, channel_count, stream_info,
                   timed_out, cb_data, warned>>
    /\ ThreadsFrame

NextThreads ==
    \/ callback_enter(hw_tick + LayoutTickStep,
                      FullFrame(hw_channels, Len(delivered) + 1))
    \/ callback_first_lsl
    \/ callback_first_chassis
    \/ callback_put
    \/ start_streaming_call
    \/ stop_streaming_call
    \/ stop_streaming_joined
    \/ close_call
    \/ close_joined
    \/ \E i \in 1 .. Len(workers) : worker_while_running(i)
    \/ \E i \in 1 .. Len(workers) : worker_queue_empty(i)
    \/ \E i \in 1 .. Len(workers) : worker_get(i)
    \/ \E i \in 1 .. Len(workers) : worker_push(i)

SpecThreads == InitRelay /\ [][NextThreads]_vars

(***************************************************************************)
(* C33, C34, C35, C37: the threads of FieldLineLSL                         *)
(***************************************************************************)
\* C34: at most one streaming thread is inside the loop with the queue in
\* use, whatever the order of start_streaming, stop_streaming and close
C34_AtMostOneWorker ==
    Cardinality({i \in 1 .. Len(workers) : Draining(i)}) <= 1

\* two threads started by two calls of start_streaming have each taken a
\* frame from the queue
C34_TwoWorkersHoldFrames ==
    \E i, j \in 1 .. Len(workers) :
        i # j /\ workers[i].pc = "build" /\ workers[j].pc = "build"

\* stop_streaming has returned and a thread is still in its loop
C34_WorkerOutlivesStop ==
    /\ main_pc = "idle"
    /\ ~running
    /\ \E i \in 1 .. Len(workers) : Draining(i)

\* C33: the frames are pushed in the order in which the callback queued
\* them, each at most once, with strictly increasing publish timestamps
C33_PublishedInEnqueueOrder ==
    \A i, j \in 1 .. Len(pushed) :
        i < j => /\ pushed[i].n < pushed[j].n
                 /\ pushed[i].ts < pushed[j].ts

\* a frame is pushed after a frame that was queued later
C33_PushedOutOfOrder ==
    \E i, j \in 1 .. Len(pushed) : i < j /\ pushed[i].n > pushed[j].n

\* the frames pushed by one thread are in the order of the queue
C33_OrderedPerWorker ==
    \A i, j \in 1 .. Len(pushed) :
        i < j /\ pushed[i].by = pushed[j].by
            => /\ pushed[i].n < pushed[j].n
               /\ pushed[i].ts < pushed[j].ts

\* C35: whenever a frame is in the queue or in the hand of a streaming
\* thread, and whenever a publish timestamp is computed, both timestamps of
\* the anchor pair are set
C35_AnchorSetBeforeDequeue ==
    /\ [](data_queue # <<>> \/ (\E i \in 1 .. Len(workers) :
                                    workers[i].pc = "build")
             => ~get_timestamp_Raises)
    /\ [][pushed' # pushed => ~get_timestamp_Raises]_vars

\* a streaming thread holds a frame while the callback is in the middle of
\* handling the next one
C35_Witness ==
    /\ \E i \in 1 .. Len(workers) : workers[i].pc = "build"
    /\ cb_data # <<>>
    /\ ~get_timestamp_Raises

\* the callback has set the first timestamp of the pair and not the second
\* while a streaming thread is waiting at the queue
C35_AnchorHalfSet ==
    /\ first_lsl_timestamp # NoneTs
    /\ first_chassis_timestamp = NoneTs
    /\ \E i \in 1 .. Len(workers) : workers[i].pc = "get"

\* C37: the step of stop_streaming that logs the warning is taken when
\* streaming is not running and changes nothing else: callback, thread
\* handle and threads, queue, outlet and running flag stay as they are
C37_StopWhenNotRunningChangesNothing ==
    [][~warned /\ warned'
          => /\ ~running
             /\ UNCHANGED <<relayvars, workers, cb_data, seqvars, scriptvars,
                            flowvars, logvars, initvars, stampvars>>]_vars

\* the warning was logged; streaming is not running, a streaming session
\* has left its threads, an open outlet and a frame in the queue
C37_Witness ==
    /\ warned
    /\ ~running
    /\ main_pc = "idle"
    /\ stream_outlet = "open"
    /\ workers # <<>>
    /\ data_queue # <<>>

(***************************************************************************)
(* fieldline_lsl_new.py from the reading of the structure sample to the    *)
(* end of the streaming loop, with the local clock and the timestamp the   *)
(* connector's callback writes into each sample                            *)
(***************************************************************************)
\* what the steps on the stamped queue leave alone
StampFrame ==
    UNCHANGED <<cfgvars, connvars, pc, batch, hwvars, histvars, script,
                init_timeout, now, relayvars, discovered_chassis,
                expected_chassis, adc, duration, logvars, initvars,
                workervars, service_running, data_started, chassis_list,
                signalled, structure_sample, runtime, stop_log>>

\* callback_data_available(sample): sample['timestamp_lsl'] = local_clock()
stamp_callback_enter(frame) ==
    /\ run_pc \notin {"none", "start", "exited"}
    /\ service_running
    /\ data_started
    /\ cb_sample = <<>>
    /\ Len(arrived_at) < MaxFrames
    /\ cb_sample' = <<[data_frames |-> frame,
                       timestamp_lsl |-> local_clock,
                       n |-> Len(arrived_at) + 1]>>
    /\ arrived_at' = Append(arrived_at, local_clock)
    /\ UNCHANGED <<run_pc, exit_code, exit_reason, ops, ops_after_signal,
                   data_q, outlets, chunks, q_stamps, cleared, published>>
    /\ StampFrame

\* callback_data_available: self.data_q.put(sample)
stamp_callback_put ==
    /\ cb_sample # <<>>
    /\ data_q' = Append(data_q, cb_sample[1].data_frames)
    /\ q_stamps' = Append(q_stamps,
                          [timestamp_lsl |-> cb_sample[1].timestamp_lsl,
                           n |-> cb_sample[1].n,
                           after_clear |-> cleared])
    /\ cb_sample' = <<>>
    /\ UNCHANGED <<run_pc, exit_code, exit_reason, ops, ops_after_signal,
                   outlets, chunks, arrived_at, cleared, published>>
    /\ StampFrame

\* outlet = FieldLineStreamOutlet(structure_sample, ...)
stamp_open_outlet ==
    /\ script = "fieldline_lsl_new"
    /\ run_pc = "open_outlet"
    /\ IF getStreamInfoRaises(structure_sample)
          THEN /\ ProcessExit(1, "UnboundLocalError")
               /\ UNCHANGED <<outlets, ops, ops_after_signal>>
          ELSE /\ outlets' = Append(outlets,
                       StreamOutletOf(structure_sample, Len(data_q)))
               /\ IssueOps({"open_outlet"})
               /\ run_pc' = "clear_queue"
               /\ UNCHANGED <<exit_code, exit_reason>>
    /\ UNCHANGED <<data_q, chunks, stampvars>>
    /\ StampFrame

\* a clear_queue that leaves the queue as it is
stamp_clear_queue_Keeps ==
    /\ run_pc = "clear_queue"
    /\ run_pc' = "stream"
    /\ cleared' = TRUE
    /\ UNCHANGED <<exit_code, exit_reason, ops, ops_after_signal, outlets,
                   chunks, data_q, q_stamps, cb_sample, arrived_at,
                   published>>
    /\ StampFrame

\* fConnector.clear_queue(): with the mutex held, self.data_q.queue.clear()
stamp_clear_queue ==
    /\ run_pc = "clear_queue"
    /\ run_pc' = "stream"
    /\ data_q' = <<>>
    /\ q_stamps' = <<>>
    /\ cleared' = TRUE
    /\ UNCHANGED <<exit_code, exit_reason, ops, ops_after_signal, outlets,
                   chunks, cb_sample, arrived_at, published>>
    /\ StampFrame

\* the streaming loop takes a frame: timestamp = data['timestamp_lsl'],
\* outlet.push_flchunk(data_frames, timestamp=timestamp)
stamp_push ==
    /\ run_pc = "stream"
    /\ StreamingLoopRuns
    /\ data_q # <<>>
    /\ data_q' = Tail(data_q)
    /\ q_stamps' = Tail(q_stamps)
    /\ IF PushRaises(Head(data_q))
          THEN /\ ProcessExit(1, "ValueError")
               /\ UNCHANGED <<ops, ops_after_signal, chunks, published>>
          ELSE /\ chunks' = <<[data_frames |-> Head(data_q),
                               x |-> push_flchunk(Head(data_q))]>>
               /\ published' = <<[n |-> Head(q_stamps).n,
                                  timestamp |-> Head(q_stamps).timestamp_lsl,
                                  at |-> local_clock,
                                  after_clear |-> Head(q_stamps).after_clear]>>
               /\ IssueOps({"push"})
               /\ UNCHANGED <<run_pc, exit_code, exit_reason>>
    /\ UNCHANGED <<outlets, cb_sample, arrived_at, cleared>>
    /\ StampFrame

InitArrival ==
    /\ expected_sensors = NoneVal
    /\ disable_restart = FALSE
    /\ skip_init = FALSE
    /\ excluded_sensors = {}
    /\ sensors_available = EmptySets
    /\ sensors_selected = EmptySets
    /\ sensors_restarted = EmptySets
    /\ sensors_coarse_zeroed = EmptySets
    /\ sensors_fine_zeroed = EmptySets
    /\ service_running = TRUE
    /\ pc = "run"
    /\ batch = EmptySets
    /\ exit_reason = "none"
    /\ hw_avail = {}
    /\ restart_inflight = {}
    /\ coarse_inflight = {}
    /\ fine_inflight = {}
    /\ n_restart = [p \in Sensors |-> 0]
    /\ n_coarse = [p \in Sensors |-> 0]
    /\ n_fine = [p \in Sensors |-> 0]
    /\ turned_off = {}
    /\ seen = {}
    /\ ever_restarted = {}
    /\ ever_coarse_done = {}
    /\ ever_fine_done = {}
    /\ script = "fieldline_lsl_new"
    /\ init_timeout = NoTimeout
    /\ now = 0
    /\ exit_code = NoExit
    /\ data_started = TRUE
    /\ RelayConstructed
    /\ unit_T = "fT"
    /\ hw_channels = OpmChannels
    /\ adc_on = {}
    /\ run_pc = "read_sample"
    /\ discovered_chassis = Chassis
    /\ expected_chassis = NoneChassis
    /\ adc = FALSE
    /\ chassis_list = Chassis
    /\ signalled = FALSE
    /\ ops = OpsBeforeStreaming \ {"open_outlet"}
    /\ ops_after_signal = {}
    /\ data_q = <<>>
    /\ structure_sample = OpmChannels
    /\ outlets = <<>>
    /\ duration \in DurationChoices
    /\ runtime = 0
    /\ stop_log = <<>>
    /\ chunks = <<>>
    /\ LoggingNotConfigured
    /\ InitSensorsNotCalled
    /\ WorkersNotStarted

NextArrival ==
    \/ \E frame \in StreamFrames : stamp_callback_enter(frame)
    \/ stamp_callback_put
    \/ RunReadSample
    \/ stamp_open_outlet
    \/ stamp_clear_queue
    \/ stamp_push
    \/ RunTick
    \/ RunLoopExit
    \/ RunStopAdc
    \/ RunStopData
    \/ RunShutdown
    \/ signal_stop_fService
    \/ ClockAdvance

SpecArrival == InitArrival /\ [][NextArrival]_vars

(***************************************************************************)
(* C36: the frames published by fieldline_lsl_new.py                       *)
(***************************************************************************)
\* C36: a frame put into the queue before clear_queue() is never published:
\* once the streaming loop runs the queue holds only frames put after the
\* clear, and the frame published was put after the clear and carries the
\* local clock its callback recorded, whatever the clock is at the dequeue
C36_PublishedArrivedAfterClear ==
    /\ run_pc = "stream" =>
          \A i \in 1 .. Len(q_stamps) : q_stamps[i].after_clear
    /\ published # <<>> =>
          /\ published[1].after_clear
          /\ published[1].timestamp = arrived_at[published[1].n]

\* the first frame arrived before the clear and was dropped by it; the
\* second frame arrived after the clear and was published later than it
\* arrived, with the clock of its arrival
C36_Witness ==
    /\ published # <<>>
    /\ published[1].n = 2
    /\ cleared
    /\ published[1].at > published[1].timestamp
    /\ published[1].timestamp = arrived_at[2]

\* the callback has stamped a sample and not yet queued it when the queue
\* is about to be cleared: the frame is queued after the clear with a
\* timestamp taken before it
C36_StampedBeforeClear ==
    /\ run_pc = "clear_queue"
    /\ cb_sample # <<>>

=============================================================================
